---- MODULE Spec2Model ----
(***************************************************************************)
(* A model of Review Board's SSH identity and host-key core:               *)
(*   reviewboard/ssh/client.py  (SSHHostKeys, SSHClient)                   *)
(*   reviewboard/ssh/utils.py   (check_host)                               *)
(* The storage backend (reviewboard/ssh/storage.py), the host-key policy   *)
(* (reviewboard/ssh/policy.py) and the error classes are not part of the   *)
(* sources at hand; they are modelled from the specification, as is the    *)
(* transport library the client delegates to.                              *)
(*                                                                         *)
(* Besides, ReviewManager.get_pending_review and fix_duplicate_reviews of  *)
(* reviewboard/reviews/managers.py are modelled over a table of reviews;   *)
(* the Review model and the ORM are not part of the sources at hand.       *)
(*                                                                         *)
(* Nine specifications share the variables:                                *)
(*   Spec      the user-key operations, one whole call per step;           *)
(*   SpecConc  two callers of the user-key operations, one storage call    *)
(*             per step;                                                   *)
(*   SpecHost  check_host, one statement (or one stage of connect) per     *)
(*             step;                                                       *)
(*   SpecAuth  is_key_authorized over the authorized-keys lines;           *)
(*   SpecNs    clients of several namespaces, one whole call per step;     *)
(*   SpecInit  the constructor of SSHClient, one whole call per step;      *)
(*   SpecKey   humanize_key, one whole call per step;                      *)
(*   SpecClient  one client object and the known-hosts lines of its        *)
(*             storage, one whole call per step;                           *)
(*   SpecReview  ReviewManager.get_pending_review and                      *)
(*             fix_duplicate_reviews over a table of reviews, one whole    *)
(*             call per step.                                              *)
(***************************************************************************)
EXTENDS Naturals, Integers, Sequences, FiniteSets

VARIABLES
    userKeyFile,    \* storage: the user's private key file
    genCount,       \* number of keys RSAKey.generate has produced so far
    prev,           \* the call before the last one, in brief (Spec)
    last,           \* the last call of a user-key operation (Spec)
    procs,          \* the concurrent callers (SpecConc)
    hostKeyLines,   \* storage: the known-hosts lines
    runningTest,    \* settings.RUNNING_TEST
    ch,             \* the check_host call in progress (SpecHost)
    authorizedKeys, \* storage: the authorized-keys lines (SpecAuth)
    authCall,       \* the last call of is_key_authorized (SpecAuth)
    nsStore,        \* storage: what the backend holds per namespace (SpecNs)
    nsLast,         \* the last call on a client of a namespace (SpecNs)
    ctor,           \* the last call of SSHClient's constructor (SpecInit)
    hk,             \* the last calls of humanize_key (SpecKey)
    client,         \* a client object and its last call (SpecClient)
    reviewDb,       \* the table of reviews (SpecReview)
    rvCall          \* the last call on the ReviewManager (SpecReview)

vars == << userKeyFile, genCount, prev, last, procs,
           hostKeyLines, runningTest, ch, authorizedKeys, authCall,
           nsStore, nsLast, ctor, hk, client, reviewDb, rvCall >>

keyVars  == << prev, last >>
concVars == << procs >>
hostVars == << hostKeyLines, runningTest, ch >>
authVars == << authorizedKeys, authCall >>
nsVars   == << nsStore, nsLast >>
auxVars  == << ctor, hk, client, reviewDb, rvCall >>

----------------------------------------------------------------------------
(* Bounds and program constants *)

\* Key ids that files and key objects handed to the program may carry.
MaxKeyId == 2

\* Number of keys RSAKey.generate may produce in one behaviour.
MaxGen == 2

\* generate_user_key(self, bits=2048)
DefaultBits == 2048

\* SSH_PORT = 22
SSH_PORT == 22

----------------------------------------------------------------------------
(* Keys and key files *)

RSA   == "ssh-rsa"
DSS   == "ssh-dss"
ECDSA == "ecdsa-sha2-nistp256"

\* Python's None, as a key.
NoKey == [type |-> "none", id |-> 0, bits |-> 0]

MkKey(type, id, bits) == [type |-> type, id |-> id, bits |-> bits]

\* The key a private-key block of the given algorithm and id decodes to.
BlockKey(type, id) == MkKey(type, id, IF type = DSS THEN 1024 ELSE DefaultBits)

\* The n-th key RSAKey.generate(bits) returns: an RSA key unlike any other.
FreshKey(n, bits) == MkKey(RSA, MaxKeyId + n, bits)

KeyIds == 1 .. MaxKeyId
BitSizes == {1024, DefaultBits}

\* A private-key block of one algorithm inside an uploaded file:
\* none (no such block), plain (an unencrypted key), enc (password-protected).
NoBlock  == [st |-> "none", id |-> 0]
EncBlock == [st |-> "enc", id |-> 0]
Blocks   == {NoBlock, EncBlock} \cup {[st |-> "plain", id |-> i] : i \in KeyIds}

\* What import_user_key is handed: an uploaded file (a block per algorithm
\* tag; no block at all is material nothing parses) or a paramiko.PKey object.
NoObj == NoKey
UploadedFiles == {[isPKey |-> FALSE, obj |-> NoObj, rsa |-> r, dss |-> d] :
                     r \in Blocks, d \in Blocks}
KeyObjects == {[isPKey |-> TRUE, obj |-> BlockKey(t, i),
                rsa |-> NoBlock, dss |-> NoBlock] :
                     t \in {RSA, DSS, ECDSA}, i \in KeyIds}
KeyFiles == UploadedFiles \cup KeyObjects
NoFile == [isPKey |-> FALSE, obj |-> NoObj, rsa |-> NoBlock, dss |-> NoBlock]

\* The stored user key file: absent, a readable key, a password-protected
\* key, or bytes that are no key.
Absent == [fmt |-> "absent", key |-> NoKey]
Stored(k) == [fmt |-> "plain", key |-> k]
Encrypted == [fmt |-> "encrypted", key |-> NoKey]
Garbage == [fmt |-> "garbage", key |-> NoKey]

\* The files the site's SSH directory may hold before the program runs.
InitialFiles == {Absent, Encrypted, Garbage}
                  \cup {Stored(BlockKey(t, i)) : t \in {RSA, DSS}, i \in KeyIds}

----------------------------------------------------------------------------
(* Exceptions *)

NoExc == "none"

\* paramiko.ssh_exception: AuthenticationException, BadHostKeyException derive
\* from SSHException; PasswordRequiredException and BadAuthenticationType
\* derive from AuthenticationException.
IsAuthenticationException(e) ==
    e \in {"AuthenticationException", "PasswordRequiredException",
           "BadAuthenticationType"}

IsSSHException(e) ==
    e \in {"SSHException", "BadHostKeyException"} \/ IsAuthenticationException(e)

----------------------------------------------------------------------------
(* The storage backend: the user key *)

StorageFaults == {NoExc, "IOError"}

\* What read_user_key may raise besides: the backend is pluggable, and the
\* client's own handlers around write_user_key and delete_user_key expect any
\* Exception from it.  "Exception" is a class that is neither an SSHException
\* nor an IOError.
ReadFaults == StorageFaults \cup {"Exception"}

\* storage.read_user_key(): the stored key, None when there is none.
read_user_key(file, fault) ==
    IF fault # NoExc THEN [exc |-> fault, key |-> NoKey]
    ELSE CASE file.fmt = "absent"    -> [exc |-> NoExc, key |-> NoKey]
           [] file.fmt = "plain"     -> [exc |-> NoExc, key |-> file.key]
           [] file.fmt = "encrypted" -> [exc |-> "PasswordRequiredException",
                                         key |-> NoKey]
           [] OTHER                  -> [exc |-> "SSHException", key |-> NoKey]

\* storage.write_user_key(key): replaces the stored key; a key of a type the
\* backend has no file for is refused.
write_user_key(file, key, fault) ==
    IF key.type \notin {RSA, DSS}
    THEN [exc |-> "UnsupportedSSHKeyError", file |-> file]
    ELSE IF fault # NoExc THEN [exc |-> fault, file |-> file]
    ELSE [exc |-> NoExc, file |-> Stored(key)]

\* storage.delete_user_key(): removes the stored key, if any.
delete_user_key_storage(file, fault) ==
    IF fault # NoExc THEN [exc |-> fault, file |-> file]
    ELSE [exc |-> NoExc, file |-> Absent]

----------------------------------------------------------------------------
(* SSHClient: the user key *)

\* SUPPORTED_KEY_TYPES with the two classes swapped.
SUPPORTED_KEY_TYPES_DssFirst == << DSS, RSA >>

SUPPORTED_KEY_TYPES == << RSA, DSS >>

\* SSHClient.get_user_key
get_user_key(file, fault) ==
    LET r == read_user_key(file, fault) IN
    IF r.exc = NoExc THEN r
    ELSE IF IsSSHException(r.exc) THEN [exc |-> NoExc, key |-> NoKey]
    ELSE IF r.exc = "PasswordRequiredException"
         THEN [exc |-> NoExc, key |-> NoKey]
    ELSE IF r.exc = "IOError" THEN [exc |-> NoExc, key |-> NoKey]
    ELSE r

\* _write_user_key that logs the backend's exception and does not re-raise it.
_write_user_key_swallows(file, key, fault) ==
    [exc |-> NoExc, file |-> write_user_key(file, key, fault).file]

\* SSHClient._write_user_key: logs and re-raises whatever the backend raises.
_write_user_key(file, key, fault) == write_user_key(file, key, fault)

\* What one call of a user-key operation did.
Call(op, in, rfault, wfault, pre, post, ret, exc, reads, writes, tried) ==
    [op |-> op, in |-> in, rfault |-> rfault, wfault |-> wfault,
     pre |-> pre, post |-> post, ret |-> ret, exc |-> exc,
     reads |-> reads, writes |-> writes, tried |-> tried]

NoCall == Call("none", NoFile, NoExc, NoExc, Absent, Absent, NoKey, NoExc,
               0, 0, << >>)

\* SSHClient.generate_user_key
generate_user_key(file, n, bits, rfault, wfault) ==
    LET g == get_user_key(file, rfault) IN
    IF g.exc # NoExc
    THEN Call("generate", NoFile, rfault, wfault, file, file, NoKey, g.exc,
              1, 0, << >>)
    ELSE IF g.key # NoKey
    THEN Call("generate", NoFile, rfault, wfault, file, file, g.key, NoExc,
              1, 0, << >>)
    ELSE LET key == FreshKey(n + 1, bits)
             w == _write_user_key(file, key, wfault) IN
         Call("generate", NoFile, rfault, wfault, file, w.file,
              IF w.exc = NoExc THEN key ELSE NoKey, w.exc, 1, 1, << >>)

\* cls.from_private_key(keyfile) for one of the supported classes.
from_private_key(cls, keyfile) ==
    LET b == IF cls = RSA THEN keyfile.rsa ELSE keyfile.dss IN
    CASE b.st = "plain" -> [exc |-> NoExc, key |-> BlockKey(cls, b.id)]
      [] b.st = "enc"   -> [exc |-> "PasswordRequiredException", key |-> NoKey]
      [] OTHER          -> [exc |-> "SSHException", key |-> NoKey]

\* The loop body without the isinstance(keyfile, cls) test: a key object of
\* any type is taken as it is.
TryKeyType_AnyObject(cls, keyfile) ==
    IF ~keyfile.isPKey THEN from_private_key(cls, keyfile)
    ELSE [exc |-> NoExc, key |-> keyfile.obj]

\* The body of import_user_key's loop for one class: the key found, or the
\* exception raised.
TryKeyType(cls, keyfile) ==
    IF ~keyfile.isPKey THEN from_private_key(cls, keyfile)
    ELSE IF keyfile.obj.type = cls THEN [exc |-> NoExc, key |-> keyfile.obj]
    ELSE [exc |-> NoExc, key |-> NoKey]

\* The loop of import_user_key from the i-th supported class on: the classes
\* tried, the key found (NoKey when the loop runs out) and the exception that
\* left the loop.
RECURSIVE ImportLoop(_, _, _)
ImportLoop(i, keyfile, tried) ==
    IF i > Len(SUPPORTED_KEY_TYPES)
    THEN [tried |-> tried, key |-> NoKey, exc |-> "UnsupportedSSHKeyError"]
    ELSE LET cls == SUPPORTED_KEY_TYPES[i]
             t == TryKeyType(cls, keyfile)
             now == Append(tried, cls) IN
         IF t.exc # NoExc
         THEN IF IsSSHException(t.exc) THEN ImportLoop(i + 1, keyfile, now)
              ELSE [tried |-> now, key |-> NoKey, exc |-> t.exc]
         ELSE IF t.key # NoKey THEN [tried |-> now, key |-> t.key, exc |-> NoExc]
         ELSE ImportLoop(i + 1, keyfile, now)

\* SSHClient.import_user_key
import_user_key(file, keyfile, wfault) ==
    LET l == ImportLoop(1, keyfile, << >>) IN
    IF l.exc # NoExc
    THEN Call("import", keyfile, NoExc, wfault, file, file, NoKey, l.exc,
              0, 0, l.tried)
    ELSE LET w == _write_user_key(file, l.key, wfault) IN
         Call("import", keyfile, NoExc, wfault, file, w.file,
              IF w.exc = NoExc THEN l.key ELSE NoKey, w.exc, 0, 1, l.tried)

\* delete_user_key that logs the backend's exception and does not re-raise
\* it.
delete_user_key_NoRaise(file, fault) ==
    LET d == delete_user_key_storage(file, fault) IN
    Call("delete", NoFile, NoExc, fault, file, d.file, NoKey, NoExc,
         0, 0, << >>)

\* A delete_user_key that returns without calling the storage.
delete_user_key_NoCall(file, fault) ==
    Call("delete", NoFile, NoExc, fault, file, file, NoKey, NoExc,
         0, 0, << >>)

\* SSHClient.delete_user_key
delete_user_key(file, fault) ==
    LET d == delete_user_key_storage(file, fault) IN
    Call("delete", NoFile, NoExc, fault, file, d.file, NoKey, d.exc,
         0, 0, << >>)

\* A caller's get_user_key, as a call.
get_user_key_call(file, fault) ==
    LET g == get_user_key(file, fault) IN
    Call("get", NoFile, fault, NoExc, file, file, g.key, g.exc, 1, 0, << >>)

----------------------------------------------------------------------------
(* Spec: the user-key operations, called one after the other *)

\* The callers of SpecConc, before they call.
Procs == {1, 2}

IdleProcs == [p \in Procs |->
                 [op |-> "none", pc |-> "idle", in |-> NoFile, saw |-> NoKey,
                  key |-> NoKey, ret |-> NoKey, exc |-> NoExc, wrote |-> FALSE]]

\* An exception in flight, and what check_host ends with.
Exc(cls, hostname, key, expected, allowed, msg) ==
    [cls |-> cls, hostname |-> hostname, key |-> key, expected |-> expected,
     allowed |-> allowed, msg |-> msg]

Result(kind, hostname, key, expected, allowed, userKey, msg) ==
    [kind |-> kind, hostname |-> hostname, key |-> key,
     expected |-> expected, allowed |-> allowed, userKey |-> userKey,
     msg |-> msg]

\* No exception has left connect.
NoRaise == Exc(NoExc, << >>, NoKey, NoKey, << >>, "")

Pending  == Result("pending", << >>, NoKey, NoKey, << >>, NoKey, "")
Returned == Result("returned", << >>, NoKey, NoKey, << >>, NoKey, "")

\* The check_host call of SpecHost, before it is made.
IdleCheckHost ==
    [pc |-> "idle", netloc |-> << >>, hostname |-> << >>, port |-> 0,
     policy |-> "none", index |-> << >>, pkey |-> NoKey, server |-> NoKey,
     verified |-> FALSE, rejected |-> FALSE, warned |-> FALSE,
     connects |-> 0, auths |-> 0, reads |-> 0, transport |-> "none",
     session |-> FALSE, raised |-> NoRaise, hfault |-> NoExc,
     result |-> Pending]

\* The call of is_key_authorized of SpecAuth, before it is made.
NoAuthCall == [op |-> "none", key |-> NoKey, fault |-> NoExc, ret |-> FALSE,
               exc |-> NoExc, reads |-> 0]

\* The namespaces of SpecNs: the namespace None of a site-less installation
\* and the namespace of a local site.
NoNamespace == "None"
Namespaces == {NoNamespace, "site-a"}

\* A backend that holds nothing for any namespace.
EmptyStores ==
    [ns \in Namespaces |->
        [userKey |-> Absent, hostKeys |-> << >>, authKeys |-> << >>]]

\* The call of SpecNs, before it is made.
NoNsCall == [ns |-> NoNamespace, backend |-> NoNamespace, op |-> "none",
             fault |-> NoExc, exc |-> NoExc, calls |-> 0, key |-> NoKey,
             ok |-> FALSE, index |-> << >>]

\* Python's None where the path of a backend class is expected, and where
\* a backend is.
NonePath == "<None>"
NoStorage == [path |-> NonePath, namespace |-> NoNamespace]

\* DEFAULT_STORAGE, and the class paths a site may configure.
DEFAULT_STORAGE == "reviewboard.ssh.storage.FileSSHStorage"
SiteStorage == "site.ssh.SiteStorage"
CustomStorage == "custom.ssh.CustomStorage"
BackendClasses == {DEFAULT_STORAGE, SiteStorage, CustomStorage}

\* The call of SSHClient's constructor of SpecInit, before it is made.
NoCtor == [op |-> "none", namespace |-> NoNamespace,
           storage_backend |-> NonePath,
           siteconfig |-> [exc |-> NoExc, value |-> NonePath],
           setting |-> [exc |-> NoExc, value |-> NonePath],
           outcome |-> [p \in BackendClasses |-> "ok"], fault |-> NoExc,
           exc |-> NoExc, storage |-> NoStorage, index |-> << >>,
           paths |-> << >>, imported |-> << >>, instantiated |-> << >>,
           reads |-> 0]

\* The calls of humanize_key of SpecKey, before they are made: the
\* fingerprints of two keys and what humanize_key returned for them.
NoHumanize == [op |-> "none", fingerprints |-> << << >>, << >> >>,
               ret |-> << << >>, << >> >>]

KeyIdle == hk = NoHumanize

\* The client object of SpecClient, before it is constructed.
NoClient == [op |-> "none", index |-> << >>, hostname |-> << >>,
             key |-> NoKey, old_key |-> NoKey, fault |-> NoExc,
             exc |-> NoExc, calls |-> 0]

ClientIdle == client = NoClient

\* Reviews a table may hold in one behaviour of SpecReview.
MaxReviews == 2

ReviewIds == 1 .. MaxReviews

\* The text fields and the comment relations fix_duplicate_reviews goes
\* through.
BodyFields == << "body_top", "body_bottom", "body_top_reply_to",
                 "body_bottom_reply_to" >>
CommentFields == << "comments", "screenshot_comments",
                    "file_attachment_comments", "general_comments" >>

FieldSet(fields) == {fields[i] : i \in 1 .. Len(fields)}

\* The value of a text field or of a reference: '' or None, or the value
\* review n was saved with.
Empty == [kind |-> "empty", of |-> 0]
ValueOf(n) == [kind |-> "value", of |-> n]

\* A row of the table of reviews; comments are the rows of the relations
\* that point at the review.
Review(id, user, review_request, public, reply, timestamp, body, comments) ==
    [id |-> id, exists |-> TRUE, user |-> user,
     review_request |-> review_request, public |-> public, reply |-> reply,
     timestamp |-> timestamp, body |-> body, comments |-> comments]

\* No row with this id.
NoReview(id) ==
    [id |-> id, exists |-> FALSE, user |-> "", review_request |-> 0,
     public |-> FALSE, reply |-> FALSE, timestamp |-> 0,
     body |-> [a \in FieldSet(BodyFields) |-> Empty],
     comments |-> [f \in FieldSet(CommentFields) |-> {}]]

NoReviews == [id \in ReviewIds |-> NoReview(id)]

\* The call of SpecReview, before it is made.
NoReviewCall == [op |-> "none", user |-> "", review_request |-> 0,
                 ret |-> 0, exc |-> "none", order |-> << >>,
                 before |-> NoReviews]

ReviewIdle == reviewDb = NoReviews /\ rvCall = NoReviewCall

CtorIdle == ctor = NoCtor

\* The variables of the specifications that are not running.
AuxIdle ==
    /\ CtorIdle
    /\ KeyIdle
    /\ ClientIdle
    /\ ReviewIdle

\* What is kept of a call once another has followed it.
Brief(c) == [op |-> c.op, pre |-> c.pre, ret |-> c.ret, exc |-> c.exc,
             writes |-> c.writes]

Record(c) ==
    /\ userKeyFile' = c.post
    /\ prev' = Brief(last)
    /\ last' = c
    /\ UNCHANGED << concVars, hostVars, authVars, nsVars, auxVars >>

GenerateUserKey ==
    \E bits \in BitSizes, rfault \in ReadFaults, wfault \in StorageFaults :
        LET c == generate_user_key(userKeyFile, genCount, bits, rfault, wfault)
        IN /\ c.writes > 0 => genCount < MaxGen
           /\ genCount' = genCount + c.writes
           /\ Record(c)

ImportUserKey ==
    \E keyfile \in KeyFiles, wfault \in StorageFaults :
        /\ UNCHANGED genCount
        /\ Record(import_user_key(userKeyFile, keyfile, wfault))

DeleteUserKey ==
    \E fault \in StorageFaults :
        /\ UNCHANGED genCount
        /\ Record(delete_user_key(userKeyFile, fault))

GetUserKey ==
    \E fault \in ReadFaults :
        /\ UNCHANGED genCount
        /\ Record(get_user_key_call(userKeyFile, fault))

Init ==
    /\ userKeyFile \in InitialFiles
    /\ genCount = 0
    /\ prev = Brief(NoCall)
    /\ last = NoCall
    /\ procs = IdleProcs
    /\ hostKeyLines = << >>
    /\ runningTest = FALSE
    /\ ch = IdleCheckHost
    /\ authorizedKeys = << >>
    /\ authCall = NoAuthCall
    /\ nsStore = EmptyStores
    /\ nsLast = NoNsCall
    /\ AuxIdle

Next == GenerateUserKey \/ ImportUserKey \/ DeleteUserKey \/ GetUserKey

Spec == Init /\ [][Next]_vars

----------------------------------------------------------------------------
(* SpecConc: two callers, each making one call of a user-key operation on   *)
(* the same namespace; a step is one storage call of one caller.  Nothing  *)
(* in SSHClient takes a lock around its storage calls.                     *)

ConcUnchanged ==
    UNCHANGED << keyVars, hostVars, authVars, nsVars, auxVars >>

\* The caller enters generate_user_key.
ConcCallGenerate(p) ==
    /\ procs[p].pc = "idle"
    /\ procs' = [procs EXCEPT ![p].op = "generate", ![p].pc = "read"]
    /\ UNCHANGED << userKeyFile, genCount >>
    /\ ConcUnchanged

\* generate_user_key: key = self.get_user_key(); a key that is there is
\* returned, otherwise one is generated.
ConcRead(p) ==
    /\ procs[p].pc = "read"
    /\ LET g == get_user_key(userKeyFile, NoExc) IN
       IF g.key # NoKey
       THEN /\ procs' = [procs EXCEPT ![p].pc = "done", ![p].saw = g.key,
                                      ![p].ret = g.key]
            /\ UNCHANGED genCount
       ELSE /\ genCount < MaxGen
            /\ genCount' = genCount + 1
            /\ procs' = [procs EXCEPT ![p].pc = "write", ![p].saw = NoKey,
                             ![p].key = FreshKey(genCount + 1, DefaultBits)]
    /\ UNCHANGED userKeyFile
    /\ ConcUnchanged

\* The caller enters import_user_key: the key type is found without the
\* storage.
ConcCallImport(p) ==
    /\ procs[p].pc = "idle"
    /\ \E keyfile \in KeyFiles :
          LET l == ImportLoop(1, keyfile, << >>) IN
          procs' = [procs EXCEPT ![p].op = "import", ![p].in = keyfile,
                        ![p].key = l.key, ![p].exc = l.exc,
                        ![p].pc = IF l.exc = NoExc THEN "write" ELSE "done"]
    /\ UNCHANGED << userKeyFile, genCount >>
    /\ ConcUnchanged

\* self._write_user_key(key); return key
ConcWrite(p) ==
    /\ procs[p].pc = "write"
    /\ LET w == _write_user_key(userKeyFile, procs[p].key, NoExc) IN
       /\ userKeyFile' = w.file
       /\ procs' = [procs EXCEPT ![p].pc = "done", ![p].exc = w.exc,
                        ![p].wrote = TRUE,
                        ![p].ret = IF w.exc = NoExc THEN procs[p].key
                                   ELSE NoKey]
    /\ UNCHANGED genCount
    /\ ConcUnchanged

\* The caller's delete_user_key: its one storage call.
ConcDelete(p) ==
    /\ procs[p].pc = "idle"
    /\ LET c == delete_user_key(userKeyFile, NoExc) IN
       /\ userKeyFile' = c.post
       /\ procs' = [procs EXCEPT ![p].op = "delete", ![p].pc = "done",
                                 ![p].exc = c.exc]
    /\ UNCHANGED genCount
    /\ ConcUnchanged

InitConc ==
    /\ userKeyFile \in {Absent, Stored(BlockKey(RSA, 1))}
    /\ genCount = 0
    /\ prev = Brief(NoCall)
    /\ last = NoCall
    /\ procs = IdleProcs
    /\ hostKeyLines = << >>
    /\ runningTest = FALSE
    /\ ch = IdleCheckHost
    /\ authorizedKeys = << >>
    /\ authCall = NoAuthCall
    /\ nsStore = EmptyStores
    /\ nsLast = NoNsCall
    /\ AuxIdle

NextConc ==
    \E p \in Procs :
        \/ ConcCallGenerate(p)
        \/ ConcRead(p)
        \/ ConcCallImport(p)
        \/ ConcWrite(p)
        \/ ConcDelete(p)

SpecConc == InitConc /\ [][NextConc]_vars

----------------------------------------------------------------------------
(* Host keys, known-hosts lines, network locations *)

\* Bound on the number of known-hosts lines the storage holds.
MaxHostLines == 2

\* The host keys servers present and known-hosts lines record.
HostKeySet == {BlockKey(RSA, 1), BlockKey(RSA, 2), BlockKey(DSS, 1)}

\* A network location is a string, here a sequence of characters; a host
\* name without ':' counts as one character.
H1 == << "h1" >>
H2 == << "h2" >>

Netlocs ==
    { H1, H2,
      << "h1", ":", "2", "2" >>,
      << "h1", ":", "2", "2", "2", "2" >>,
      << "h1", ":", "x" >>,
      << "h1", ":" >>,
      << "h1", ":", "0" >>,
      << "h1", ":", "-", "1" >>,
      << "h1", ":", "2", "2", ":", "2" >>,
      << "h1", ":", " ", "2", "2", "\n" >>,
      << "h1", ":", "2", "_", "2" >>,
      << "h1", ":", "U+0662", "U+0662" >>,
      << "h1", ":", "2", "2", "_" >>,
      << "h1", ":", "2", "2", "U+001F" >> }

\* The name a host's key is filed under: the host name for port 22,
\* "[host]:port" otherwise.
HostKeyName(hostname, port) == [host |-> hostname, port |-> port]

\* A known-hosts line: "hostname keytype base64key", a line with fewer than
\* three fields, or a line of three fields whose key data is no key of the
\* named type.
HostLine(hostname, port, key) ==
    [kind |-> "ok", name |-> HostKeyName(hostname, port), key |-> key]
ShortLine == [kind |-> "short", name |-> HostKeyName(<< >>, 0), key |-> NoKey]
BadKeyLine == [kind |-> "badkey", name |-> HostKeyName(H1, SSH_PORT),
               key |-> NoKey]

HostLines ==
    {HostLine(H1, port, k) : port \in {SSH_PORT, 2222}, k \in HostKeySet}
        \cup {ShortLine, BadKeyLine}

\* All sequences over S of length at most n.
SeqsUpTo(S, n) == UNION {[1 .. m -> S] : m \in 0 .. n}

----------------------------------------------------------------------------
(* Strings: str.split(':') and int() *)

\* The index of the first sep in s at or after i, Len(s) + 1 when none.
RECURSIVE Find(_, _, _)
Find(s, sep, i) ==
    IF i > Len(s) THEN Len(s) + 1
    ELSE IF s[i] = sep THEN i
    ELSE Find(s, sep, i + 1)

\* s.split(sep): the pieces of s between the separators.
RECURSIVE Split(_, _)
Split(s, sep) ==
    LET i == Find(s, sep, 1) IN
    IF i > Len(s) THEN << s >>
    ELSE << SubSeq(s, 1, i - 1) >> \o Split(SubSeq(s, i + 1, Len(s)), sep)

Digits == << "0", "1", "2", "3", "4", "5", "6", "7", "8", "9" >>

\* A character outside printable ASCII that TLA+ has no escape for is written
\* by its code point, "U+0662" for ARABIC-INDIC DIGIT TWO.
\*
\* The decimal digits (unicodedata.decimal is defined: category Nd, Unicode
\* 14.0) that int() of a str takes, a row of the digits 0 to 9 for each run.
DecimalDigits ==
    << Digits,
       << "U+0660", "U+0661", "U+0662", "U+0663", "U+0664",
          "U+0665", "U+0666", "U+0667", "U+0668", "U+0669" >>,
       << "U+06F0", "U+06F1", "U+06F2", "U+06F3", "U+06F4",
          "U+06F5", "U+06F6", "U+06F7", "U+06F8", "U+06F9" >>,
       << "U+07C0", "U+07C1", "U+07C2", "U+07C3", "U+07C4",
          "U+07C5", "U+07C6", "U+07C7", "U+07C8", "U+07C9" >>,
       << "U+0966", "U+0967", "U+0968", "U+0969", "U+096A",
          "U+096B", "U+096C", "U+096D", "U+096E", "U+096F" >>,
       << "U+09E6", "U+09E7", "U+09E8", "U+09E9", "U+09EA",
          "U+09EB", "U+09EC", "U+09ED", "U+09EE", "U+09EF" >>,
       << "U+0A66", "U+0A67", "U+0A68", "U+0A69", "U+0A6A",
          "U+0A6B", "U+0A6C", "U+0A6D", "U+0A6E", "U+0A6F" >>,
       << "U+0AE6", "U+0AE7", "U+0AE8", "U+0AE9", "U+0AEA",
          "U+0AEB", "U+0AEC", "U+0AED", "U+0AEE", "U+0AEF" >>,
       << "U+0B66", "U+0B67", "U+0B68", "U+0B69", "U+0B6A",
          "U+0B6B", "U+0B6C", "U+0B6D", "U+0B6E", "U+0B6F" >>,
       << "U+0BE6", "U+0BE7", "U+0BE8", "U+0BE9", "U+0BEA",
          "U+0BEB", "U+0BEC", "U+0BED", "U+0BEE", "U+0BEF" >>,
       << "U+0C66", "U+0C67", "U+0C68", "U+0C69", "U+0C6A",
          "U+0C6B", "U+0C6C", "U+0C6D", "U+0C6E", "U+0C6F" >>,
       << "U+0CE6", "U+0CE7", "U+0CE8", "U+0CE9", "U+0CEA",
          "U+0CEB", "U+0CEC", "U+0CED", "U+0CEE", "U+0CEF" >>,
       << "U+0D66", "U+0D67", "U+0D68", "U+0D69", "U+0D6A",
          "U+0D6B", "U+0D6C", "U+0D6D", "U+0D6E", "U+0D6F" >>,
       << "U+0DE6", "U+0DE7", "U+0DE8", "U+0DE9", "U+0DEA",
          "U+0DEB", "U+0DEC", "U+0DED", "U+0DEE", "U+0DEF" >>,
       << "U+0E50", "U+0E51", "U+0E52", "U+0E53", "U+0E54",
          "U+0E55", "U+0E56", "U+0E57", "U+0E58", "U+0E59" >>,
       << "U+0ED0", "U+0ED1", "U+0ED2", "U+0ED3", "U+0ED4",
          "U+0ED5", "U+0ED6", "U+0ED7", "U+0ED8", "U+0ED9" >>,
       << "U+0F20", "U+0F21", "U+0F22", "U+0F23", "U+0F24",
          "U+0F25", "U+0F26", "U+0F27", "U+0F28", "U+0F29" >>,
       << "U+1040", "U+1041", "U+1042", "U+1043", "U+1044",
          "U+1045", "U+1046", "U+1047", "U+1048", "U+1049" >>,
       << "U+1090", "U+1091", "U+1092", "U+1093", "U+1094",
          "U+1095", "U+1096", "U+1097", "U+1098", "U+1099" >>,
       << "U+17E0", "U+17E1", "U+17E2", "U+17E3", "U+17E4",
          "U+17E5", "U+17E6", "U+17E7", "U+17E8", "U+17E9" >>,
       << "U+1810", "U+1811", "U+1812", "U+1813", "U+1814",
          "U+1815", "U+1816", "U+1817", "U+1818", "U+1819" >>,
       << "U+1946", "U+1947", "U+1948", "U+1949", "U+194A",
          "U+194B", "U+194C", "U+194D", "U+194E", "U+194F" >>,
       << "U+19D0", "U+19D1", "U+19D2", "U+19D3", "U+19D4",
          "U+19D5", "U+19D6", "U+19D7", "U+19D8", "U+19D9" >>,
       << "U+1A80", "U+1A81", "U+1A82", "U+1A83", "U+1A84",
          "U+1A85", "U+1A86", "U+1A87", "U+1A88", "U+1A89" >>,
       << "U+1A90", "U+1A91", "U+1A92", "U+1A93", "U+1A94",
          "U+1A95", "U+1A96", "U+1A97", "U+1A98", "U+1A99" >>,
       << "U+1B50", "U+1B51", "U+1B52", "U+1B53", "U+1B54",
          "U+1B55", "U+1B56", "U+1B57", "U+1B58", "U+1B59" >>,
       << "U+1BB0", "U+1BB1", "U+1BB2", "U+1BB3", "U+1BB4",
          "U+1BB5", "U+1BB6", "U+1BB7", "U+1BB8", "U+1BB9" >>,
       << "U+1C40", "U+1C41", "U+1C42", "U+1C43", "U+1C44",
          "U+1C45", "U+1C46", "U+1C47", "U+1C48", "U+1C49" >>,
       << "U+1C50", "U+1C51", "U+1C52", "U+1C53", "U+1C54",
          "U+1C55", "U+1C56", "U+1C57", "U+1C58", "U+1C59" >>,
       << "U+A620", "U+A621", "U+A622", "U+A623", "U+A624",
          "U+A625", "U+A626", "U+A627", "U+A628", "U+A629" >>,
       << "U+A8D0", "U+A8D1", "U+A8D2", "U+A8D3", "U+A8D4",
          "U+A8D5", "U+A8D6", "U+A8D7", "U+A8D8", "U+A8D9" >>,
       << "U+A900", "U+A901", "U+A902", "U+A903", "U+A904",
          "U+A905", "U+A906", "U+A907", "U+A908", "U+A909" >>,
       << "U+A9D0", "U+A9D1", "U+A9D2", "U+A9D3", "U+A9D4",
          "U+A9D5", "U+A9D6", "U+A9D7", "U+A9D8", "U+A9D9" >>,
       << "U+A9F0", "U+A9F1", "U+A9F2", "U+A9F3", "U+A9F4",
          "U+A9F5", "U+A9F6", "U+A9F7", "U+A9F8", "U+A9F9" >>,
       << "U+AA50", "U+AA51", "U+AA52", "U+AA53", "U+AA54",
          "U+AA55", "U+AA56", "U+AA57", "U+AA58", "U+AA59" >>,
       << "U+ABF0", "U+ABF1", "U+ABF2", "U+ABF3", "U+ABF4",
          "U+ABF5", "U+ABF6", "U+ABF7", "U+ABF8", "U+ABF9" >>,
       << "U+FF10", "U+FF11", "U+FF12", "U+FF13", "U+FF14",
          "U+FF15", "U+FF16", "U+FF17", "U+FF18", "U+FF19" >>,
       << "U+104A0", "U+104A1", "U+104A2", "U+104A3", "U+104A4",
          "U+104A5", "U+104A6", "U+104A7", "U+104A8", "U+104A9" >>,
       << "U+10D30", "U+10D31", "U+10D32", "U+10D33", "U+10D34",
          "U+10D35", "U+10D36", "U+10D37", "U+10D38", "U+10D39" >>,
       << "U+11066", "U+11067", "U+11068", "U+11069", "U+1106A",
          "U+1106B", "U+1106C", "U+1106D", "U+1106E", "U+1106F" >>,
       << "U+110F0", "U+110F1", "U+110F2", "U+110F3", "U+110F4",
          "U+110F5", "U+110F6", "U+110F7", "U+110F8", "U+110F9" >>,
       << "U+11136", "U+11137", "U+11138", "U+11139", "U+1113A",
          "U+1113B", "U+1113C", "U+1113D", "U+1113E", "U+1113F" >>,
       << "U+111D0", "U+111D1", "U+111D2", "U+111D3", "U+111D4",
          "U+111D5", "U+111D6", "U+111D7", "U+111D8", "U+111D9" >>,
       << "U+112F0", "U+112F1", "U+112F2", "U+112F3", "U+112F4",
          "U+112F5", "U+112F6", "U+112F7", "U+112F8", "U+112F9" >>,
       << "U+11450", "U+11451", "U+11452", "U+11453", "U+11454",
          "U+11455", "U+11456", "U+11457", "U+11458", "U+11459" >>,
       << "U+114D0", "U+114D1", "U+114D2", "U+114D3", "U+114D4",
          "U+114D5", "U+114D6", "U+114D7", "U+114D8", "U+114D9" >>,
       << "U+11650", "U+11651", "U+11652", "U+11653", "U+11654",
          "U+11655", "U+11656", "U+11657", "U+11658", "U+11659" >>,
       << "U+116C0", "U+116C1", "U+116C2", "U+116C3", "U+116C4",
          "U+116C5", "U+116C6", "U+116C7", "U+116C8", "U+116C9" >>,
       << "U+11730", "U+11731", "U+11732", "U+11733", "U+11734",
          "U+11735", "U+11736", "U+11737", "U+11738", "U+11739" >>,
       << "U+118E0", "U+118E1", "U+118E2", "U+118E3", "U+118E4",
          "U+118E5", "U+118E6", "U+118E7", "U+118E8", "U+118E9" >>,
       << "U+11950", "U+11951", "U+11952", "U+11953", "U+11954",
          "U+11955", "U+11956", "U+11957", "U+11958", "U+11959" >>,
       << "U+11C50", "U+11C51", "U+11C52", "U+11C53", "U+11C54",
          "U+11C55", "U+11C56", "U+11C57", "U+11C58", "U+11C59" >>,
       << "U+11D50", "U+11D51", "U+11D52", "U+11D53", "U+11D54",
          "U+11D55", "U+11D56", "U+11D57", "U+11D58", "U+11D59" >>,
       << "U+11DA0", "U+11DA1", "U+11DA2", "U+11DA3", "U+11DA4",
          "U+11DA5", "U+11DA6", "U+11DA7", "U+11DA8", "U+11DA9" >>,
       << "U+16A60", "U+16A61", "U+16A62", "U+16A63", "U+16A64",
          "U+16A65", "U+16A66", "U+16A67", "U+16A68", "U+16A69" >>,
       << "U+16AC0", "U+16AC1", "U+16AC2", "U+16AC3", "U+16AC4",
          "U+16AC5", "U+16AC6", "U+16AC7", "U+16AC8", "U+16AC9" >>,
       << "U+16B50", "U+16B51", "U+16B52", "U+16B53", "U+16B54",
          "U+16B55", "U+16B56", "U+16B57", "U+16B58", "U+16B59" >>,
       << "U+1D7CE", "U+1D7CF", "U+1D7D0", "U+1D7D1", "U+1D7D2",
          "U+1D7D3", "U+1D7D4", "U+1D7D5", "U+1D7D6", "U+1D7D7" >>,
       << "U+1D7D8", "U+1D7D9", "U+1D7DA", "U+1D7DB", "U+1D7DC",
          "U+1D7DD", "U+1D7DE", "U+1D7DF", "U+1D7E0", "U+1D7E1" >>,
       << "U+1D7E2", "U+1D7E3", "U+1D7E4", "U+1D7E5", "U+1D7E6",
          "U+1D7E7", "U+1D7E8", "U+1D7E9", "U+1D7EA", "U+1D7EB" >>,
       << "U+1D7EC", "U+1D7ED", "U+1D7EE", "U+1D7EF", "U+1D7F0",
          "U+1D7F1", "U+1D7F2", "U+1D7F3", "U+1D7F4", "U+1D7F5" >>,
       << "U+1D7F6", "U+1D7F7", "U+1D7F8", "U+1D7F9", "U+1D7FA",
          "U+1D7FB", "U+1D7FC", "U+1D7FD", "U+1D7FE", "U+1D7FF" >>,
       << "U+1E140", "U+1E141", "U+1E142", "U+1E143", "U+1E144",
          "U+1E145", "U+1E146", "U+1E147", "U+1E148", "U+1E149" >>,
       << "U+1E2F0", "U+1E2F1", "U+1E2F2", "U+1E2F3", "U+1E2F4",
          "U+1E2F5", "U+1E2F6", "U+1E2F7", "U+1E2F8", "U+1E2F9" >>,
       << "U+1E950", "U+1E951", "U+1E952", "U+1E953", "U+1E954",
          "U+1E955", "U+1E956", "U+1E957", "U+1E958", "U+1E959" >>,
       << "U+1FBF0", "U+1FBF1", "U+1FBF2", "U+1FBF3", "U+1FBF4",
          "U+1FBF5", "U+1FBF6", "U+1FBF7", "U+1FBF8", "U+1FBF9" >> >>

IsDigit(c) ==
    \E r \in 1 .. Len(DecimalDigits), d \in 1 .. 10 : DecimalDigits[r][d] = c
DigitValue(c) ==
    (CHOOSE d \in 1 .. 10 :
        \E r \in 1 .. Len(DecimalDigits) : DecimalDigits[r][d] = c) - 1

RECURSIVE DecimalValue(_)
DecimalValue(s) ==
    IF s = << >> THEN 0
    ELSE 10 * DecimalValue(SubSeq(s, 1, Len(s) - 1)) + DigitValue(s[Len(s)])

\* The characters str.isspace() holds for: str.split() splits at them.
Whitespace ==
    {"\t", "\n", "U+000B", "\f", "\r", "U+001C", "U+001D", "U+001E",
     "U+001F", " ", "U+0085", "U+00A0", "U+1680", "U+2000", "U+2001",
     "U+2002", "U+2003", "U+2004", "U+2005", "U+2006", "U+2007", "U+2008",
     "U+2009", "U+200A", "U+2028", "U+2029", "U+202F", "U+205F", "U+3000"}

IsSpace(c) == c \in Whitespace

\* int(s) of a str (CPython 3.11): white space around the number is passed
\* over, all of Whitespace but U+001C to U+001F; the number is an optional
\* sign and decimal digits, with single underscores between digits, and of
\* no more than 4300 digits (sys.get_int_max_str_digits()); ValueError
\* otherwise.
ParseInt(s) ==
    LET inner == {i \in 1 .. Len(s) :
                     ~IsSpace(s[i])
                         \/ s[i] \in {"U+001C", "U+001D", "U+001E", "U+001F"}}
        stripped ==
            IF inner = {} THEN << >>
            ELSE SubSeq(s, CHOOSE i \in inner : \A j \in inner : i <= j,
                           CHOOSE i \in inner : \A j \in inner : j <= i)
        signed == stripped # << >> /\ stripped[1] \in {"-", "+"}
        body == IF signed THEN SubSeq(stripped, 2, Len(stripped))
                ELSE stripped
        digit(i) == i \in 1 .. Len(body) /\ IsDigit(body[i])
        digits == SelectSeq(body, IsDigit)
    IN IF \/ body = << >>
          \/ \E i \in 1 .. Len(body) :
                ~digit(i) /\ ~(body[i] = "_" /\ digit(i - 1) /\ digit(i + 1))
          \/ Len(digits) > 4300
       THEN [exc |-> "ValueError", value |-> 0]
       ELSE [exc |-> NoExc,
             value |-> IF signed /\ stripped[1] = "-"
                       THEN 0 - DecimalValue(digits)
                       ELSE DecimalValue(digits)]

----------------------------------------------------------------------------
(* SSHHostKeys *)

\* None, where an entry is expected.
NoEntry == [kind |-> "none", name |-> HostKeyName(<< >>, 0), key |-> NoKey]

\* HostKeyEntry.from_line: the entry of a well-formed line, None for a line
\* of fewer than three fields, SSHException for key data that is no key.
from_line(line) ==
    CASE line.kind = "ok"    -> [exc |-> NoExc, entry |-> line]
      [] line.kind = "short" -> [exc |-> NoExc, entry |-> NoEntry]
      [] OTHER               -> [exc |-> "SSHException", entry |-> NoEntry]

\* SSHHostKeys.load that stops reading at the first line that does not
\* parse.
RECURSIVE load_StopsAtMalformed(_)
load_StopsAtMalformed(lines) ==
    IF lines = << >> THEN << >>
    ELSE LET r == from_line(Head(lines))
             entry == IF r.exc = NoExc THEN r.entry ELSE NoEntry IN
         IF entry = NoEntry THEN << >>
         ELSE << entry >> \o load_StopsAtMalformed(Tail(lines))

\* SSHHostKeys.load: the entries of the lines the storage returns that parse.
RECURSIVE load(_)
load(lines) ==
    IF lines = << >> THEN << >>
    ELSE LET r == from_line(Head(lines))
             entry == IF r.exc # NoExc /\ IsSSHException(r.exc) THEN NoEntry
                      ELSE r.entry IN
         (IF entry # NoEntry THEN << entry >> ELSE << >>)
            \o load(Tail(lines))

\* HostKeys.lookup(name) and the choice of the key to compare the server's
\* with: "unknown" when no entry is filed under the name; otherwise the first
\* entry of the server key's type (failing that, the first entry) is the
\* expected key, and the outcome is "match" when it equals the server's key.
CheckServerKey(index, name, serverKey) ==
    LET Named(e) == e.name = name
        SameType(e) == e.key.type = serverKey.type
        named == SelectSeq(index, Named)
        typed == SelectSeq(named, SameType)
    IN IF named = << >> THEN [outcome |-> "unknown", expected |-> NoKey]
       ELSE IF typed # << >> /\ typed[1].key = serverKey
       THEN [outcome |-> "match", expected |-> serverKey]
       ELSE [outcome |-> "mismatch",
             expected |-> IF typed # << >> THEN typed[1].key
                          ELSE named[1].key]

----------------------------------------------------------------------------
(* SpecAuth: is_key_authorized *)

\* Lines the storage may return as authorized keys.
MaxAuthLines == 2

\* key.get_base64(): the public blob of the key, a string of its own for
\* every key.
get_base64(key) == << "AAAA", key.type, Digits[key.id + 1] >>

\* The keys asked about.
AuthKeys == {BlockKey(RSA, 1), BlockKey(RSA, 2), BlockKey(DSS, 1)}

\* An authorized-keys line is a string, here a sequence of characters; a
\* word that is no key blob counts as one character.
AuthLine(key) ==
    << key.type, " " >> \o get_base64(key) \o << " ", "user@host", "\n" >>

AuthLines ==
    { AuthLine(BlockKey(RSA, 1)),
      AuthLine(BlockKey(RSA, 2)),
      get_base64(BlockKey(RSA, 1)) \o << "\n" >>,
      << "\n" >>,
      << RSA, " " >> \o get_base64(BlockKey(RSA, 1)) \o << "=", "\n" >>,
      << " ", " ", RSA, "\t", "\t" >> \o get_base64(BlockKey(RSA, 1)),
      get_base64(BlockKey(RSA, 1)) \o << " ", RSA, "\n" >>,
      << "no-pty", " " >> \o AuthLine(BlockKey(RSA, 1)),
      << RSA, " " >> \o get_base64(BlockKey(RSA, 1)) \o << "\r", "\n" >>,
      << RSA, "U+00A0" >> \o get_base64(BlockKey(RSA, 2))
          \o << "\f", "user@host", "U+0085" >> }

\* str.split(): the words of s between runs of whitespace.
RECURSIVE SplitWhitespace(_)
SplitWhitespace(s) ==
    IF s = << >> THEN << >>
    ELSE IF IsSpace(s[1]) THEN SplitWhitespace(Tail(s))
    ELSE LET spaces == {i \in 1 .. Len(s) : IsSpace(s[i])}
             end == IF spaces = {} THEN Len(s) + 1
                    ELSE CHOOSE i \in spaces : \A j \in spaces : i <= j
         IN << SubSeq(s, 1, end - 1) >>
                \o SplitWhitespace(SubSeq(s, end, Len(s)))

\* storage.read_authorized_keys(): the lines of the authorized-keys file.
read_authorized_keys(lines, fault) ==
    IF fault # NoExc THEN [exc |-> fault, lines |-> << >>]
    ELSE [exc |-> NoExc, lines |-> lines]

\* The loop of is_key_authorized over the lines: line.split()[1] of a line of
\* fewer than two words raises IndexError and the line is passed over.
RECURSIVE AuthorizedLoop(_, _)
AuthorizedLoop(lines, public_key) ==
    IF lines = << >> THEN FALSE
    ELSE LET words == SplitWhitespace(Head(lines)) IN
         IF Len(words) < 2 THEN AuthorizedLoop(Tail(lines), public_key)
         ELSE IF words[2] = public_key THEN TRUE
         ELSE AuthorizedLoop(Tail(lines), public_key)

\* is_key_authorized that compares the key with the first word of a line.
is_key_authorized_FirstWord(lines, key, fault) ==
    LET r == read_authorized_keys(lines, fault)
        First(l) == LET w == SplitWhitespace(l) IN
                    w # << >> /\ w[1] = get_base64(key)
    IN [exc |-> IF r.exc = "IOError" THEN NoExc ELSE r.exc,
        ret |-> \E i \in 1 .. Len(r.lines) : First(r.lines[i]),
        reads |-> 1]

\* SSHClient.is_key_authorized: an IOError of the storage is passed over and
\* the key is not authorized.
is_key_authorized(lines, key, fault) ==
    LET public_key == get_base64(key)
        r == read_authorized_keys(lines, fault)
    IN IF r.exc = NoExc
       THEN [exc |-> NoExc, ret |-> AuthorizedLoop(r.lines, public_key),
             reads |-> 1]
       ELSE IF r.exc = "IOError"
       THEN [exc |-> NoExc, ret |-> FALSE, reads |-> 1]
       ELSE [exc |-> r.exc, ret |-> FALSE, reads |-> 1]

IsKeyAuthorized ==
    /\ \E key \in AuthKeys, fault \in ReadFaults :
          LET r == is_key_authorized(authorizedKeys, key, fault) IN
          authCall' = [op |-> "is_key_authorized", key |-> key,
                       fault |-> fault, ret |-> r.ret, exc |-> r.exc,
                       reads |-> r.reads]
    /\ UNCHANGED << userKeyFile, genCount, keyVars, concVars, hostVars,
                    authorizedKeys, nsVars, auxVars >>

InitAuth ==
    /\ userKeyFile = Absent
    /\ genCount = 0
    /\ prev = Brief(NoCall)
    /\ last = NoCall
    /\ procs = IdleProcs
    /\ hostKeyLines = << >>
    /\ runningTest = FALSE
    /\ ch = IdleCheckHost
    /\ authorizedKeys \in SeqsUpTo(AuthLines, MaxAuthLines)
    /\ authCall = NoAuthCall
    /\ nsStore = EmptyStores
    /\ nsLast = NoNsCall
    /\ AuxIdle

NextAuth == IsKeyAuthorized

SpecAuth == InitAuth /\ [][NextAuth]_vars

----------------------------------------------------------------------------
(* SpecNs: clients of several namespaces *)

\* _load_storage that constructs the backend without the namespace.
_load_storage_NoNamespace(namespace) == NoNamespace

\* SSHClient._load_storage: storage_cls(namespace=self.namespace).  A backend
\* is told by the namespace it was constructed with.
_load_storage(namespace) == namespace

\* SSHClient(namespace): the client's namespace and its storage backend.
SSHClient(namespace) ==
    [namespace |-> namespace, storage |-> _load_storage(namespace)]

\* storage.read_host_keys(): the known-hosts lines.
read_host_keys(lines, fault) ==
    IF fault # NoExc THEN [exc |-> fault, lines |-> << >>]
    ELSE [exc |-> NoExc, lines |-> lines]

\* storage.add_host_key(hostname, key): one more known-hosts line.
add_host_key_storage(lines, hostname, key, fault) ==
    IF fault # NoExc THEN [exc |-> fault, lines |-> lines]
    ELSE [exc |-> NoExc,
          lines |-> Append(lines, HostLine(hostname, SSH_PORT, key))]

\* storage.replace_host_key(hostname, old_key, new_key): the line of the
\* host with the old key becomes a line with the new key; nothing changes
\* when there is none.
replace_host_key_storage(lines, hostname, old_key, new_key, fault) ==
    IF fault # NoExc THEN [exc |-> fault, lines |-> lines]
    ELSE [exc |-> NoExc,
          lines |-> [i \in 1 .. Len(lines) |->
                        IF lines[i] = HostLine(hostname, SSH_PORT, old_key)
                        THEN HostLine(hostname, SSH_PORT, new_key)
                        ELSE lines[i]]]

\* SSHClient.add_host_key
add_host_key(lines, hostname, key, fault) ==
    add_host_key_storage(lines, hostname, key, fault)

\* SSHClient.replace_host_key
replace_host_key(lines, hostname, old_key, new_key, fault) ==
    replace_host_key_storage(lines, hostname, old_key, new_key, fault)

\* The constructor's SSHHostKeys(self.storage) and load_host_keys: the host
\* keys of the new client, or the exception of read_host_keys.
load_host_keys(lines, fault) ==
    LET r == read_host_keys(lines, fault) IN
    [exc |-> r.exc, index |-> IF r.exc = NoExc THEN load(r.lines) ELSE << >>]

\* Known-hosts lines a namespace may hold, and keys RSAKey.generate may
\* produce, in one behaviour of SpecNs.
MaxNsHostLines == 1
MaxNsGen == 1

\* The keys the clients of SpecNs import, file under a host and ask about.
NsKeys == {BlockKey(RSA, 1), BlockKey(DSS, 1)}

NsKeyObject(k) ==
    [isPKey |-> TRUE, obj |-> k, rsa |-> NoBlock, dss |-> NoBlock]

\* What one call on a client of namespace ns did: the backend it went to,
\* the fault of the storage operation, the exception that reached the caller,
\* the number of calls of the storage operation, and what was returned.
NsCall(ns, backend, op, fault, exc, calls, key, ok, index) ==
    [ns |-> ns, backend |-> backend, op |-> op, fault |-> fault, exc |-> exc,
     calls |-> calls, key |-> key, ok |-> ok, index |-> index]

NsUnchanged ==
    UNCHANGED << userKeyFile, keyVars, concVars, hostVars, authVars,
                 auxVars >>

\* client = SSHClient(namespace=ns)
NsConstruct(ns) ==
    \E fault \in StorageFaults :
        LET c == SSHClient(ns)
            r == load_host_keys(nsStore[c.storage].hostKeys, fault) IN
        /\ nsLast' = NsCall(ns, c.storage, "construct", fault, r.exc, 1,
                            NoKey, FALSE, r.index)
        /\ UNCHANGED << nsStore, genCount >>
        /\ NsUnchanged

\* SSHClient(namespace=ns).get_user_key()
NsGetUserKey(ns) ==
    \E fault \in ReadFaults :
        LET c == SSHClient(ns)
            g == get_user_key(nsStore[c.storage].userKey, fault) IN
        /\ nsLast' = NsCall(ns, c.storage, "get", fault, g.exc, 1, g.key,
                            FALSE, << >>)
        /\ UNCHANGED << nsStore, genCount >>
        /\ NsUnchanged

\* SSHClient(namespace=ns).generate_user_key()
NsGenerateUserKey(ns) ==
    \E wfault \in StorageFaults :
        LET c == SSHClient(ns)
            g == generate_user_key(nsStore[c.storage].userKey, genCount,
                                   DefaultBits, NoExc, wfault) IN
        /\ g.writes > 0 => genCount < MaxNsGen
        /\ g.writes = 0 => wfault = NoExc
        /\ genCount' = genCount + g.writes
        /\ nsStore' = [nsStore EXCEPT ![c.storage].userKey = g.post]
        /\ nsLast' = NsCall(ns, c.storage, "generate", wfault, g.exc,
                            g.writes, g.ret, FALSE, << >>)
        /\ NsUnchanged

\* SSHClient(namespace=ns).import_user_key(key)
NsImportUserKey(ns) ==
    \E k \in NsKeys, wfault \in StorageFaults :
        LET c == SSHClient(ns)
            i == import_user_key(nsStore[c.storage].userKey, NsKeyObject(k),
                                 wfault) IN
        /\ nsStore' = [nsStore EXCEPT ![c.storage].userKey = i.post]
        /\ nsLast' = NsCall(ns, c.storage, "import", wfault, i.exc, i.writes,
                            i.ret, FALSE, << >>)
        /\ UNCHANGED genCount
        /\ NsUnchanged

\* SSHClient(namespace=ns).delete_user_key()
NsDeleteUserKey(ns) ==
    \E fault \in StorageFaults :
        LET c == SSHClient(ns)
            d == delete_user_key(nsStore[c.storage].userKey, fault) IN
        /\ nsStore' = [nsStore EXCEPT ![c.storage].userKey = d.post]
        /\ nsLast' = NsCall(ns, c.storage, "delete", fault, d.exc, 1, NoKey,
                            FALSE, << >>)
        /\ UNCHANGED genCount
        /\ NsUnchanged

\* SSHClient(namespace=ns).add_host_key(hostname, key)
NsAddHostKey(ns) ==
    \E k \in NsKeys, fault \in StorageFaults :
        LET c == SSHClient(ns)
            a == add_host_key(nsStore[c.storage].hostKeys, H1, k, fault) IN
        /\ Len(nsStore[c.storage].hostKeys) < MaxNsHostLines
        /\ nsStore' = [nsStore EXCEPT ![c.storage].hostKeys = a.lines]
        /\ nsLast' = NsCall(ns, c.storage, "add_host_key", fault, a.exc, 1,
                            NoKey, FALSE, << >>)
        /\ UNCHANGED genCount
        /\ NsUnchanged

\* SSHClient(namespace=ns).replace_host_key(hostname, old_key, new_key)
NsReplaceHostKey(ns) ==
    \E old \in NsKeys, new \in NsKeys, fault \in StorageFaults :
        LET c == SSHClient(ns)
            r == replace_host_key(nsStore[c.storage].hostKeys, H1, old, new,
                                  fault) IN
        /\ old # new
        /\ nsStore' = [nsStore EXCEPT ![c.storage].hostKeys = r.lines]
        /\ nsLast' = NsCall(ns, c.storage, "replace_host_key", fault, r.exc,
                            1, NoKey, FALSE, << >>)
        /\ UNCHANGED genCount
        /\ NsUnchanged

\* SSHClient(namespace=ns).is_key_authorized(key)
NsIsKeyAuthorized(ns) ==
    \E k \in NsKeys, fault \in ReadFaults :
        LET c == SSHClient(ns)
            r == is_key_authorized(nsStore[c.storage].authKeys, k, fault) IN
        /\ nsLast' = NsCall(ns, c.storage, "is_key_authorized", fault, r.exc,
                            r.reads, k, r.ret, << >>)
        /\ UNCHANGED << nsStore, genCount >>
        /\ NsUnchanged

\* Every namespace has an authorized key of its own and nothing else.
InitNs ==
    /\ userKeyFile = Absent
    /\ genCount = 0
    /\ prev = Brief(NoCall)
    /\ last = NoCall
    /\ procs = IdleProcs
    /\ hostKeyLines = << >>
    /\ runningTest = FALSE
    /\ ch = IdleCheckHost
    /\ authorizedKeys = << >>
    /\ authCall = NoAuthCall
    /\ nsStore =
          [ns \in Namespaces |->
              [EmptyStores[ns] EXCEPT
                  !.authKeys = << AuthLine(IF ns = NoNamespace
                                           THEN BlockKey(RSA, 1)
                                           ELSE BlockKey(DSS, 1)) >>]]
    /\ nsLast = NoNsCall
    /\ AuxIdle

NextNs ==
    \E ns \in Namespaces :
        \/ NsConstruct(ns)
        \/ NsGetUserKey(ns)
        \/ NsGenerateUserKey(ns)
        \/ NsImportUserKey(ns)
        \/ NsDeleteUserKey(ns)
        \/ NsAddHostKey(ns)
        \/ NsReplaceHostKey(ns)
        \/ NsIsKeyAuthorized(ns)

SpecNs == InitNs /\ [][NextNs]_vars

----------------------------------------------------------------------------
(* SpecInit: the constructor of SSHClient *)

\* What becomes of a class path: the class is imported and instantiated
\* ("ok"), import_module or getattr raises ImportError or AttributeError,
\* import_module raises a class the loop does not catch ("ValueError", as
\* for an empty module name), or storage_cls(namespace=...) raises.
BackendOutcomes ==
    {"ok", "ImportError", "AttributeError", "ValueError", "Exception"}

\* The values a configured path may have: None, the empty string, a path.
PathValues == {NonePath, ""} \cup (BackendClasses \ {DEFAULT_STORAGE})

\* siteconfig.get('ssh_storage_backend'), or the exception of
\* SiteConfiguration.objects.get_current().
SiteconfigValues ==
    {[exc |-> "Exception", value |-> NonePath]}
        \cup {[exc |-> NoExc, value |-> v] : v \in PathValues}

\* getattr(settings, 'RBSSH_STORAGE_BACKEND'), or its AttributeError.
SettingValues ==
    {[exc |-> "AttributeError", value |-> NonePath]}
        \cup {[exc |-> NoExc, value |-> v] : v \in PathValues}

\* if backend_path: a path that is neither None nor empty.
Truthy(path) == path \notin {NonePath, ""}

\* backend_paths that keeps the configured and default paths behind an
\* explicit storage_backend.
backend_paths_WithFallback(storage_backend, siteconfig, setting) ==
    (IF Truthy(storage_backend) THEN << storage_backend >> ELSE << >>)
        \o (IF siteconfig.exc = NoExc THEN << siteconfig.value >> ELSE << >>)
        \o (IF setting.exc = NoExc THEN << setting.value >> ELSE << >>)
        \o << DEFAULT_STORAGE >>

\* The list backend_paths of _load_storage.
backend_paths(storage_backend, siteconfig, setting) ==
    IF Truthy(storage_backend) THEN << storage_backend >>
    ELSE (IF siteconfig.exc = NoExc THEN << siteconfig.value >> ELSE << >>)
            \o (IF setting.exc = NoExc THEN << setting.value >> ELSE << >>)
            \o << DEFAULT_STORAGE >>

\* The loop of _load_storage from the i-th path on: self.storage, and the
\* positions in backend_paths of the paths imported and of the classes
\* instantiated.
RECURSIVE LoadStorageLoop(_, _, _, _, _, _)
LoadStorageLoop(paths, i, outcome, namespace, imported, instantiated) ==
    IF i > Len(paths)
    THEN [exc |-> NoExc, storage |-> NoStorage, imported |-> imported,
          instantiated |-> instantiated]
    ELSE IF ~Truthy(paths[i])
    THEN LoadStorageLoop(paths, i + 1, outcome, namespace, imported,
                         instantiated)
    ELSE IF outcome[paths[i]] \in {"AttributeError", "ImportError"}
    THEN LoadStorageLoop(paths, i + 1, outcome, namespace,
                         Append(imported, i), instantiated)
    ELSE IF outcome[paths[i]] = "ValueError"
    THEN [exc |-> "ValueError", storage |-> NoStorage,
          imported |-> Append(imported, i), instantiated |-> instantiated]
    ELSE IF outcome[paths[i]] # "ok"
    THEN LoadStorageLoop(paths, i + 1, outcome, namespace,
                         Append(imported, i), Append(instantiated, i))
    ELSE [exc |-> NoExc,
          storage |-> [path |-> paths[i],
                       namespace |-> _load_storage(namespace)],
          imported |-> Append(imported, i),
          instantiated |-> Append(instantiated, i)]

\* The known-hosts lines a backend returns: every class and namespace has
\* lines of its own.
BackendLines(storage) ==
    LET own == HostLine(H1, SSH_PORT,
                        IF storage.namespace = NoNamespace
                        THEN BlockKey(RSA, 1) ELSE BlockKey(RSA, 2))
    IN CASE storage.path = DEFAULT_STORAGE -> << own >>
         [] storage.path = SiteStorage     -> << BadKeyLine, own,
                                                 HostLine(H2, SSH_PORT,
                                                          BlockKey(DSS, 1)) >>
         [] OTHER                          -> << ShortLine >>

\* What one call of the constructor was given and did: the exception raised
\* or the client's storage and host keys, and the calls of read_host_keys.
CtorCall(in, exc, storage, index, reads) ==
    [op |-> in.op, namespace |-> in.namespace,
     storage_backend |-> in.storage_backend, siteconfig |-> in.siteconfig,
     setting |-> in.setting, outcome |-> in.outcome, fault |-> in.fault,
     exc |-> exc, storage |-> storage, index |-> index, paths |-> in.paths,
     imported |-> in.imported, instantiated |-> in.instantiated,
     reads |-> reads]

\* The constructor that goes on without host keys when they cannot be read.
SSHClient_init_IgnoresReadFailure(namespace, storage_backend, siteconfig, setting, outcome, fault) ==
    LET paths == backend_paths(storage_backend, siteconfig, setting)
        l == LoadStorageLoop(paths, 1, outcome, namespace, << >>, << >>)
        h == load_host_keys(BackendLines(l.storage), fault)
        in == [op |-> "SSHClient", namespace |-> namespace,
               storage_backend |-> storage_backend,
               siteconfig |-> siteconfig, setting |-> setting,
               outcome |-> outcome, fault |-> fault, paths |-> paths,
               imported |-> l.imported, instantiated |-> l.instantiated]
    IN IF l.exc # NoExc
       THEN CtorCall(in, l.exc, NoStorage, << >>, 0)
       ELSE IF l.storage = NoStorage
       THEN CtorCall(in, "ImproperlyConfigured", NoStorage, << >>, 0)
       ELSE CtorCall(in, NoExc, l.storage, h.index, 1)

\* SSHClient.__init__: the namespace, _load_storage, the host keys loaded
\* from the storage.  What the caller gets: the client's storage and host
\* keys, or the exception.
SSHClient_init(namespace, storage_backend, siteconfig, setting, outcome, fault) ==
    LET paths == backend_paths(storage_backend, siteconfig, setting)
        l == LoadStorageLoop(paths, 1, outcome, namespace, << >>, << >>)
        h == load_host_keys(BackendLines(l.storage), fault)
        in == [op |-> "SSHClient", namespace |-> namespace,
               storage_backend |-> storage_backend,
               siteconfig |-> siteconfig, setting |-> setting,
               outcome |-> outcome, fault |-> fault, paths |-> paths,
               imported |-> l.imported, instantiated |-> l.instantiated]
    IN IF l.exc # NoExc
       THEN CtorCall(in, l.exc, NoStorage, << >>, 0)
       ELSE IF l.storage = NoStorage
       THEN CtorCall(in, "ImproperlyConfigured", NoStorage, << >>, 0)
       ELSE IF h.exc # NoExc
       THEN CtorCall(in, h.exc, NoStorage, << >>, 1)
       ELSE CtorCall(in, NoExc, l.storage, h.index, 1)

\* SSHClient(namespace=..., storage_backend=...) with the configuration and
\* the backends as they are.
Construct ==
    /\ ctor.op = "none"
    /\ ctor' = SSHClient_init(ctor.namespace, ctor.storage_backend,
                              ctor.siteconfig, ctor.setting, ctor.outcome,
                              ctor.fault)
    /\ UNCHANGED << userKeyFile, genCount, keyVars, concVars, hostVars,
                    authVars, nsVars, hk, client, reviewDb, rvCall >>

InitInit ==
    /\ userKeyFile = Absent
    /\ genCount = 0
    /\ prev = Brief(NoCall)
    /\ last = NoCall
    /\ procs = IdleProcs
    /\ hostKeyLines = << >>
    /\ runningTest = FALSE
    /\ ch = IdleCheckHost
    /\ authorizedKeys = << >>
    /\ authCall = NoAuthCall
    /\ nsStore = EmptyStores
    /\ nsLast = NoNsCall
    /\ KeyIdle
    /\ ClientIdle
    /\ ReviewIdle
    /\ \E namespace \in Namespaces,
          storage_backend \in PathValues,
          siteconfig \in SiteconfigValues,
          setting \in SettingValues,
          outcome \in [BackendClasses -> BackendOutcomes],
          fault \in StorageFaults :
          ctor = [NoCtor EXCEPT !.namespace = namespace,
                                !.storage_backend = storage_backend,
                                !.siteconfig = siteconfig,
                                !.setting = setting,
                                !.outcome = outcome,
                                !.fault = fault]

NextInit == Construct

SpecInit == InitInit /\ [][NextInit]_vars

----------------------------------------------------------------------------
(* check_host *)

RaisePolicy == "RaiseUnknownHostKeyPolicy"
WarnPolicy  == "WarningPolicy"

NoAuthMethods == "No authentication methods available"

InSeq(x, s) == \E i \in 1 .. Len(s) : s[i] = x

\* The except clauses of check_host that map the transport library's
\* exceptions with the generic SSHException clause first.
MapConnectException_GenericFirst(e, userKey) ==
    IF IsSSHException(e.cls)
    THEN IF e.msg = NoAuthMethods
         THEN Result("SSHAuthenticationError", << >>, NoKey, NoKey, << >>,
                     NoKey, "")
         ELSE Result("SSHError", << >>, NoKey, NoKey, << >>, NoKey, e.msg)
    ELSE Result(e.cls, e.hostname, e.key, e.expected, e.allowed, NoKey, e.msg)

\* The except clauses of check_host with the user key put in the
\* SSHAuthenticationError whatever the server allows.
MapConnectException_AlwaysKey(e, userKey) ==
    IF e.cls = "BadHostKeyException"
    THEN Result("BadHostKeyError", e.hostname, e.key, e.expected, << >>,
                NoKey, "")
    ELSE IF IsAuthenticationException(e.cls)
    THEN Result("SSHAuthenticationError", << >>, NoKey, NoKey, e.allowed,
                userKey, "")
    ELSE IF IsSSHException(e.cls)
    THEN IF e.msg = NoAuthMethods
         THEN Result("SSHAuthenticationError", << >>, NoKey, NoKey, << >>,
                     NoKey, "")
         ELSE Result("SSHError", << >>, NoKey, NoKey, << >>, NoKey, e.msg)
    ELSE Result(e.cls, e.hostname, e.key, e.expected, e.allowed, NoKey, e.msg)

\* The except clauses of check_host that raise every SSHException of the
\* last clause as SSHError with a message of their own.
MapConnectException_Reworded(e, userKey) ==
    IF e.cls = "BadHostKeyException"
    THEN Result("BadHostKeyError", e.hostname, e.key, e.expected, << >>,
                NoKey, "")
    ELSE IF IsAuthenticationException(e.cls)
    THEN Result("SSHAuthenticationError", << >>, NoKey, NoKey, e.allowed,
                IF InSeq("publickey", e.allowed) THEN userKey ELSE NoKey, "")
    ELSE IF IsSSHException(e.cls)
    THEN IF e.msg = NoAuthMethods
         THEN Result("SSHAuthenticationError", << >>, NoKey, NoKey, << >>,
                     NoKey, "")
         ELSE Result("SSHError", << >>, NoKey, NoKey, << >>, NoKey,
                     "SSH error")
    ELSE Result(e.cls, e.hostname, e.key, e.expected, e.allowed, NoKey, e.msg)

\* Except clauses whose last one turns every SSHException into SSHError,
\* whatever its message.
MapConnectException_NoMessageCheck(e, userKey) ==
    IF e.cls = "BadHostKeyException"
    THEN Result("BadHostKeyError", e.hostname, e.key, e.expected, << >>,
                NoKey, "")
    ELSE IF IsAuthenticationException(e.cls)
    THEN Result("SSHAuthenticationError", << >>, NoKey, NoKey, e.allowed,
                IF InSeq("publickey", e.allowed) THEN userKey ELSE NoKey, "")
    ELSE IF IsSSHException(e.cls)
    THEN Result("SSHError", << >>, NoKey, NoKey, << >>, NoKey, e.msg)
    ELSE Result(e.cls, e.hostname, e.key, e.expected, e.allowed, NoKey, e.msg)

\* The except clauses of check_host: what the call ends with when connect
\* raises e; userKey is what client.get_user_key() returns in the handler.
MapConnectException(e, userKey) ==
    IF e.cls = "BadHostKeyException"
    THEN Result("BadHostKeyError", e.hostname, e.key, e.expected, << >>,
                NoKey, "")
    ELSE IF IsAuthenticationException(e.cls)
    THEN Result("SSHAuthenticationError", << >>, NoKey, NoKey, e.allowed,
                IF InSeq("publickey", e.allowed) THEN userKey ELSE NoKey, "")
    ELSE IF IsSSHException(e.cls)
    THEN IF e.msg = NoAuthMethods
         THEN Result("SSHAuthenticationError", << >>, NoKey, NoKey, << >>,
                     NoKey, "")
         ELSE Result("SSHError", << >>, NoKey, NoKey, << >>, NoKey, e.msg)
    ELSE Result(e.cls, e.hostname, e.key, e.expected, e.allowed, NoKey, e.msg)

\* A handler that reads the user key again on every authentication failure.
HandlerReads_Always(e) ==
    IF IsAuthenticationException(e.cls) THEN 1 ELSE 0

\* The handler reads the user key again when the server offers "publickey".
HandlerReads(e) ==
    IF e.cls # "BadHostKeyException" /\ IsAuthenticationException(e.cls)
         /\ InSeq("publickey", e.allowed)
    THEN 1 ELSE 0

\* client.set_missing_host_key_policy(RaiseUnknownHostKeyPolicy())
InitialPolicy == RaisePolicy

\* The policy's missing_host_key: RaiseUnknownHostKeyPolicy raises
\* UnknownHostKeyError, WarningPolicy warns and returns.
missing_host_key(policy, hostname, key) ==
    IF policy = RaisePolicy
    THEN Exc("UnknownHostKeyError", hostname, key, NoKey, << >>, "")
    ELSE Exc(NoExc, hostname, key, NoKey, << >>, "")

HostUnchanged ==
    UNCHANGED << userKeyFile, genCount, keyVars, concVars, hostKeyLines,
                 runningTest, authVars, nsVars, auxVars >>

\* What the constructor of check_host's client, which is given no
\* storage_backend, may raise before it reads the host keys: the exceptions
\* of _load_storage over the configurations and the backends.
LoadStorageExceptions ==
    {SSHClient_init(NoNamespace, NonePath, siteconfig, setting, outcome,
                    NoExc).exc :
        siteconfig \in SiteconfigValues, setting \in SettingValues,
        outcome \in [BackendClasses -> BackendOutcomes]}

\* check_host is called: client = SSHClient(namespace=namespace), whose
\* constructor loads the storage backend and the host keys from the
\* storage, and the first set_missing_host_key_policy.  An exception of
\* the constructor leaves check_host as it is: no policy is set, nothing is
\* parsed, connect is not called.
CheckHostCall ==
    /\ ch.pc = "idle"
    /\ \E netloc \in Netlocs, backend \in LoadStorageExceptions,
          fault \in StorageFaults :
          LET h == load_host_keys(hostKeyLines, fault)
              exc == IF backend # NoExc THEN backend ELSE h.exc
          IN ch' = IF exc # NoExc
                   THEN [IdleCheckHost EXCEPT
                            !.pc = "done", !.netloc = netloc,
                            !.result = Result(exc, << >>, NoKey, NoKey,
                                              << >>, NoKey, "SSHClient")]
                   ELSE [IdleCheckHost EXCEPT
                            !.pc = "parse", !.netloc = netloc,
                            !.index = h.index, !.policy = InitialPolicy]
    /\ HostUnchanged

\* if ':' in netloc: hostname, port = netloc.split(':'); port = int(port)
\* else: hostname = netloc; port = SSH_PORT
ParseNetloc ==
    /\ ch.pc = "parse"
    /\ LET parts == Split(ch.netloc, ":") IN
       IF ~InSeq(":", ch.netloc)
       THEN ch' = [ch EXCEPT !.pc = "policy", !.hostname = ch.netloc,
                             !.port = SSH_PORT]
       ELSE IF Len(parts) # 2
       THEN ch' = [ch EXCEPT !.pc = "done",
                       !.result = Result("ValueError", << >>, NoKey, NoKey,
                                         << >>, NoKey, "unpack")]
       ELSE LET n == ParseInt(parts[2]) IN
            IF n.exc # NoExc
            THEN ch' = [ch EXCEPT !.pc = "done",
                            !.result = Result("SSHInvalidPortError", << >>,
                                              NoKey, NoKey, << >>, NoKey,
                                              "port")]
            ELSE ch' = [ch EXCEPT !.pc = "policy", !.hostname = parts[1],
                                  !.port = n.value]
    /\ HostUnchanged

\* A check_host that installs WarningPolicy whether or not RUNNING_TEST is
\* set.
TestPolicy_AlwaysWarning ==
    /\ ch.pc = "policy"
    /\ ch' = [ch EXCEPT !.pc = "connect", !.policy = WarnPolicy]
    /\ HostUnchanged

\* if getattr(settings, 'RUNNING_TEST', False):
\*     client.set_missing_host_key_policy(paramiko.WarningPolicy())
TestPolicy ==
    /\ ch.pc = "policy"
    /\ ch' = [ch EXCEPT !.pc = "connect",
                        !.policy = IF runningTest THEN WarnPolicy
                                   ELSE ch.policy]
    /\ HostUnchanged

\* A check_host that calls connect in a loop of two attempts.
ConnectCall_Twice ==
    /\ ch.pc = "connect"
    /\ \E fault \in ReadFaults :
          LET g == get_user_key(userKeyFile, fault)
              e == Exc(g.exc, << >>, NoKey, NoKey, << >>, "read") IN
          IF g.exc # NoExc
          THEN ch' = [ch EXCEPT !.pc = "done", !.reads = ch.reads + 1,
                                !.raised = e,
                                !.result = MapConnectException(e, NoKey)]
          ELSE ch' = [ch EXCEPT !.pc = "handshake", !.pkey = g.key,
                                !.reads = ch.reads + 2,
                                !.connects = ch.connects + 2]
    /\ HostUnchanged

\* client.connect(hostname, port, ..., pkey=client.get_user_key(), ...):
\* the argument is evaluated inside the try, then connect is entered; what
\* get_user_key lets through goes to the except clauses and connect is not
\* entered.
ConnectCall ==
    /\ ch.pc = "connect"
    /\ \E fault \in ReadFaults :
          LET g == get_user_key(userKeyFile, fault)
              e == Exc(g.exc, << >>, NoKey, NoKey, << >>, "read") IN
          IF g.exc # NoExc
          THEN ch' = [ch EXCEPT !.pc = "done", !.reads = ch.reads + 1,
                                !.raised = e,
                                !.result = MapConnectException(e, NoKey)]
          ELSE ch' = [ch EXCEPT !.pc = "handshake", !.pkey = g.key,
                                !.reads = ch.reads + 1,
                                !.connects = ch.connects + 1]
    /\ HostUnchanged

\* What connect may raise before the server's key is known: the socket's
\* error, or the SSHException of the transport's start_client.
HandshakeFailures ==
    {Exc("socket.error", << >>, NoKey, NoKey, << >>, "refused"),
     Exc("SSHException", << >>, NoKey, NoKey, << >>, "banner"),
     Exc("SSHException", << >>, NoKey, NoKey, << >>, "negotiation")}

\* connect fails before the server's key is known: the socket or the
\* transport's start_client raises, and no transport is left running.
HandshakeFails ==
    /\ ch.pc = "handshake"
    /\ \E e \in HandshakeFailures :
          ch' = [ch EXCEPT !.pc = "done", !.raised = e,
                           !.result = MapConnectException(e, NoKey)]
    /\ HostUnchanged

\* The socket is connected, the transport is up and the server has
\* presented its key. The transport stays open until someone closes the
\* client.
HandshakeDone ==
    /\ ch.pc = "handshake"
    /\ ch.port >= 1
    /\ \E k \in HostKeySet :
          ch' = [ch EXCEPT !.pc = "verify", !.server = k,
                           !.transport = "open"]
    /\ HostUnchanged

\* connect checks the server's key against the client's host keys; a key
\* filed under no name goes to the policy, a key unlike the expected one
\* raises BadHostKeyException. What is raised leaves connect with the
\* transport as it is, and no except clause of check_host closes the client.
VerifyHostKey ==
    /\ ch.pc = "verify"
    /\ LET c == CheckServerKey(ch.index, HostKeyName(ch.hostname, ch.port),
                               ch.server)
           m == missing_host_key(ch.policy, ch.hostname, ch.server)
       IN CASE c.outcome = "match" ->
                 ch' = [ch EXCEPT !.pc = "auth", !.verified = TRUE]
            [] c.outcome = "mismatch" ->
                 LET e == Exc("BadHostKeyException", ch.hostname, ch.server,
                              c.expected, << >>, "mismatch") IN
                 ch' = [ch EXCEPT !.pc = "done", !.verified = TRUE,
                                  !.raised = e,
                                  !.result = MapConnectException(e, NoKey)]
            [] OTHER ->
                 IF m.cls # NoExc
                 THEN ch' = [ch EXCEPT !.pc = "done", !.verified = TRUE,
                                 !.rejected = TRUE, !.raised = m,
                                 !.result = MapConnectException(m, NoKey)]
                 ELSE ch' = [ch EXCEPT !.pc = "auth", !.verified = TRUE,
                                       !.warned = TRUE]
    /\ HostUnchanged

\* What the server may answer to the authentication attempt.
AuthFailures ==
    {Exc("AuthenticationException", << >>, NoKey, NoKey, << >>, "failed"),
     Exc("BadAuthenticationType", << >>, NoKey, NoKey, << "publickey" >>,
         "bad type"),
     Exc("BadAuthenticationType", << >>, NoKey, NoKey, << "password" >>,
         "bad type"),
     Exc("SSHException", << >>, NoKey, NoKey, << >>, NoAuthMethods)}

\* connect authenticates with the key and the credentials; the server
\* accepts and connect returns.
AuthAccepted ==
    /\ ch.pc = "auth"
    /\ ch' = [ch EXCEPT !.pc = "done", !.auths = ch.auths + 1,
                        !.session = TRUE, !.result = Returned]
    /\ HostUnchanged

\* connect authenticates and raises; the except clauses map the exception.
\* The clause of AuthenticationException calls get_user_key again when
\* 'publickey' is allowed, and what that call lets through leaves check_host
\* in place of the mapped exception.
AuthFails ==
    /\ ch.pc = "auth"
    /\ \E e \in AuthFailures, fault \in ReadFaults :
          LET g == get_user_key(userKeyFile, fault)
              n == HandlerReads(e) IN
          /\ n = 0 => fault = NoExc
          /\ ch' = [ch EXCEPT !.pc = "done", !.auths = ch.auths + 1,
                       !.reads = ch.reads + n, !.raised = e,
                       !.hfault = fault,
                       !.result =
                           IF n > 0 /\ g.exc # NoExc
                           THEN Result(g.exc, << >>, NoKey, NoKey, << >>,
                                       NoKey, "read")
                           ELSE MapConnectException(e, g.key)]
    /\ HostUnchanged

\* The call has ended; the client object is dropped, and with it whatever
\* transport it still held.
CheckHostEnd ==
    /\ ch.pc = "done"
    /\ ch' = IdleCheckHost
    /\ HostUnchanged

InitHost ==
    /\ userKeyFile \in {Absent, Stored(BlockKey(RSA, 1))}
    /\ genCount = 0
    /\ prev = Brief(NoCall)
    /\ last = NoCall
    /\ procs = IdleProcs
    /\ hostKeyLines \in SeqsUpTo(HostLines, MaxHostLines)
    /\ runningTest \in BOOLEAN
    /\ ch = IdleCheckHost
    /\ authorizedKeys = << >>
    /\ authCall = NoAuthCall
    /\ nsStore = EmptyStores
    /\ nsLast = NoNsCall
    /\ AuxIdle

NextHost ==
    \/ CheckHostCall
    \/ ParseNetloc
    \/ TestPolicy
    \/ ConnectCall
    \/ HandshakeFails
    \/ HandshakeDone
    \/ VerifyHostKey
    \/ AuthAccepted
    \/ AuthFails
    \/ CheckHostEnd

SpecHost == InitHost /\ [][NextHost]_vars

----------------------------------------------------------------------------
(* SpecKey: humanize_key *)

\* Bytes of the digest key.get_fingerprint() returns, in one behaviour.
MaxDigestLen == 2

\* Byte values the digests are made of: both hex digits small, one of them
\* a letter, a leading zero, both letters, the largest.
ByteValues == {0, 10, 16, 171, 255}

Fingerprints == UNION {[1 .. n -> ByteValues] : n \in 1 .. MaxDigestLen}

HexDigits == << "0", "1", "2", "3", "4", "5", "6", "7", "8", "9",
                "a", "b", "c", "d", "e", "f" >>

\* '%x' % i: the hexadecimal digits of i, lowercase, without leading zeros.
RECURSIVE HexOf(_)
HexOf(i) ==
    IF i < 16 THEN << HexDigits[i + 1] >>
    ELSE HexOf(i \div 16) \o << HexDigits[(i % 16) + 1] >>

\* '%x' % i, without the padding.
FormatHex_NoPad(i) == HexOf(i)

\* '%02x' % i: padded with zeros on the left to two characters.
FormatHex(i) ==
    LET h == HexOf(i) IN IF Len(h) < 2 THEN << "0" >> \o h ELSE h

\* sep.join(parts)
RECURSIVE Join(_, _)
Join(sep, parts) ==
    IF parts = << >> THEN << >>
    ELSE IF Len(parts) = 1 THEN parts[1]
    ELSE parts[1] \o << sep >> \o Join(sep, Tail(parts))

\* humanize_key(key), fingerprint being key.get_fingerprint(): the values
\* are the bytes of the digest as integers (ord(c) of each character on
\* Python 2, the bytes themselves on Python 3).
humanize_key(fingerprint) ==
    Join(":", [j \in 1 .. Len(fingerprint) |-> FormatHex(fingerprint[j])])

\* humanize_key is called for the two keys.
Humanize ==
    /\ hk.op = "none"
    /\ hk' = [op |-> "humanize_key", fingerprints |-> hk.fingerprints,
              ret |-> << humanize_key(hk.fingerprints[1]),
                         humanize_key(hk.fingerprints[2]) >>]
    /\ UNCHANGED << userKeyFile, genCount, keyVars, concVars, hostVars,
                    authVars, nsVars, ctor, client, reviewDb, rvCall >>

InitKey ==
    /\ userKeyFile = Absent
    /\ genCount = 0
    /\ prev = Brief(NoCall)
    /\ last = NoCall
    /\ procs = IdleProcs
    /\ hostKeyLines = << >>
    /\ runningTest = FALSE
    /\ ch = IdleCheckHost
    /\ authorizedKeys = << >>
    /\ authCall = NoAuthCall
    /\ nsStore = EmptyStores
    /\ nsLast = NoNsCall
    /\ CtorIdle
    /\ ClientIdle
    /\ ReviewIdle
    /\ \E a \in Fingerprints, b \in Fingerprints :
          hk = [NoHumanize EXCEPT !.fingerprints = << a, b >>]

NextKey == Humanize

SpecKey == InitKey /\ [][NextKey]_vars

----------------------------------------------------------------------------
(* SpecReview: ReviewManager.get_pending_review, fix_duplicate_reviews *)

Users == {"alice", "bob"}
AnonymousUser == "AnonymousUser"

\* user.is_authenticated
is_authenticated(user) == user # AnonymousUser

ReviewRequests == {1, 2}
Timestamps == {1, 2}

\* Whose review it is and of what kind: a pending review of the user on the
\* review request, a published one, a pending reply, a pending review of
\* another user, a pending review on another review request.
ReviewScopes ==
    {[user |-> "alice", review_request |-> 1, public |-> FALSE,
      reply |-> FALSE],
     [user |-> "alice", review_request |-> 1, public |-> TRUE,
      reply |-> FALSE],
     [user |-> "alice", review_request |-> 1, public |-> FALSE,
      reply |-> TRUE],
     [user |-> "bob", review_request |-> 1, public |-> FALSE,
      reply |-> FALSE],
     [user |-> "alice", review_request |-> 2, public |-> FALSE,
      reply |-> FALSE]}

\* What a review was saved with: the text fields that are set (to values of
\* its own) and the relations that hold a comment (of its own).  Each of the
\* two leaves fields empty that the other sets, and both set body_bottom
\* and hold a screenshot comment.
ReviewContents ==
    {[body |-> {"body_top", "body_bottom"},
      comments |-> {"comments", "screenshot_comments"}],
     [body |-> {"body_bottom", "body_top_reply_to", "body_bottom_reply_to"},
      comments |-> {"screenshot_comments", "file_attachment_comments",
                    "general_comments"}]}

\* The row of the id, of a scope, a timestamp and contents.
ReviewRow(id, s, t, c) ==
    Review(id, s.user, s.review_request, s.public, s.reply, t,
           [a \in FieldSet(BodyFields) |->
               IF a \in c.body THEN ValueOf(id) ELSE Empty],
           [f \in FieldSet(CommentFields) |->
               IF f \in c.comments THEN {id} ELSE {}])

\* The table of rows 1 to n, of the scope, timestamp and contents of each.
ReviewTable(n, row) ==
    [id \in ReviewIds |->
        IF id <= n THEN ReviewRow(id, row[id][1], row[id][2], row[id][3])
        ELSE NoReview(id)]

\* self.filter(user=user, review_request=review_request, public=False,
\*             base_reply_to__isnull=True): the ids of the rows.
PendingRows(db, user, review_request) ==
    {id \in ReviewIds :
        /\ db[id].exists
        /\ db[id].user = user
        /\ db[id].review_request = review_request
        /\ ~db[id].public
        /\ ~db[id].reply}

\* query.order_by("timestamp"): the orders the query may yield the rows in;
\* rows of equal timestamp come in any order.
Orderings(db, ids) ==
    {o \in [1 .. Cardinality(ids) -> ids] :
        /\ \A i \in DOMAIN o, j \in DOMAIN o : i # j => o[i] # o[j]
        /\ \A i \in DOMAIN o, j \in DOMAIN o :
              i < j => db[o[i]].timestamp <= db[o[j]].timestamp}

\* if review_value: neither '' nor None.
IsSet(value) == value.kind # "empty"

\* The loop of fix_duplicate_reviews over reviews[1:]: master is the object
\* in memory, db the table.  The text fields go into the object, the
\* comments are moved in the table, master_review.save() writes the object's
\* fields, review.delete() removes the row.  When review is the master's
\* own row, each comment is added to it and then removed from it, and the
\* row is deleted.
RECURSIVE FixLoop(_, _, _)
FixLoop(db, master, rest) ==
    IF rest = << >> THEN [db |-> db, master |-> master]
    ELSE LET review == Head(rest)
             merged ==
                 [master EXCEPT !.body =
                     [a \in FieldSet(BodyFields) |->
                         IF IsSet(review.body[a]) /\ ~IsSet(master.body[a])
                         THEN review.body[a] ELSE master.body[a]]]
             moved ==
                 [db EXCEPT
                     ![master.id].comments =
                         [f \in FieldSet(CommentFields) |->
                             db[master.id].comments[f]
                                 \cup db[review.id].comments[f]],
                     ![review.id].comments =
                         [f \in FieldSet(CommentFields) |-> {}]]
             saved ==
                 [moved EXCEPT ![master.id] =
                     [merged EXCEPT !.comments = moved[master.id].comments]]
             deleted == [saved EXCEPT ![review.id] = NoReview(review.id)]
         IN FixLoop(deleted, merged, Tail(rest))

\* A fix_duplicate_reviews that deletes the duplicates with what they hold.
fix_duplicate_reviews_Discards(db, reviews) ==
    IF reviews = << >>
    THEN [db |-> db, master |-> NoReview(0), exc |-> "IndexError"]
    ELSE [db |-> [id \in ReviewIds |->
                     IF \E i \in 2 .. Len(reviews) : reviews[i].id = id
                     THEN NoReview(id) ELSE db[id]],
          master |-> reviews[1], exc |-> NoExc]

\* ReviewManager.fix_duplicate_reviews: reviews[0] of an empty list raises
\* IndexError; otherwise the table afterwards and the first review of the
\* list, which is returned.
fix_duplicate_reviews(db, reviews) ==
    IF reviews = << >>
    THEN [db |-> db, master |-> NoReview(0), exc |-> "IndexError"]
    ELSE LET f == FixLoop(db, reviews[1], Tail(reviews)) IN
         [db |-> f.db, master |-> f.master, exc |-> NoExc]

\* ReviewManager.get_pending_review: the table afterwards and the id of the
\* review returned, 0 for None; order is the order the query yielded.
get_pending_review(db, user, review_request, order) ==
    IF ~is_authenticated(user) THEN [db |-> db, ret |-> 0]
    ELSE LET reviews == [i \in 1 .. Len(order) |-> db[order[i]]] IN
         IF Len(reviews) = 0 THEN [db |-> db, ret |-> 0]
         ELSE IF Len(reviews) = 1 THEN [db |-> db, ret |-> reviews[1].id]
         ELSE LET f == fix_duplicate_reviews(db, reviews) IN
              [db |-> f.db, ret |-> f.master.id]

GetPendingReview ==
    /\ \E user \in Users \cup {AnonymousUser},
          review_request \in ReviewRequests :
          LET ids == IF is_authenticated(user)
                     THEN PendingRows(reviewDb, user, review_request)
                     ELSE {}
          IN \E order \in Orderings(reviewDb, ids) :
                LET r == get_pending_review(reviewDb, user, review_request,
                                            order)
                IN /\ reviewDb' = r.db
                   /\ rvCall' = [op |-> "get_pending_review", user |-> user,
                                 review_request |-> review_request,
                                 ret |-> r.ret, exc |-> NoExc,
                                 order |-> order, before |-> reviewDb]
    /\ UNCHANGED << userKeyFile, genCount, keyVars, concVars, hostVars,
                    authVars, nsVars, ctor, hk, client >>

\* The lists of reviews a caller of fix_duplicate_reviews may pass, order
\* holds their ids: rows of the table in any order, each at most once, and
\* the lists of two that name one row twice.
ReviewLists(db) ==
    {order \in SeqsUpTo({id \in ReviewIds : db[id].exists}, MaxReviews) :
        \A i \in DOMAIN order, j \in DOMAIN order :
            i # j => order[i] # order[j]}
        \cup {<< id, id >> : id \in {id \in ReviewIds : db[id].exists}}

\* Review.objects.fix_duplicate_reviews(reviews), called by itself: the
\* reviews need not be pending, nor of one user or one review request.
FixDuplicateReviews ==
    /\ \E order \in ReviewLists(reviewDb) :
          LET reviews == [i \in 1 .. Len(order) |-> reviewDb[order[i]]]
              f == fix_duplicate_reviews(reviewDb, reviews)
          IN /\ reviewDb' = f.db
             /\ rvCall' = [op |-> "fix_duplicate_reviews", user |-> "",
                           review_request |-> 0, ret |-> f.master.id,
                           exc |-> f.exc, order |-> order,
                           before |-> reviewDb]
    /\ UNCHANGED << userKeyFile, genCount, keyVars, concVars, hostVars,
                    authVars, nsVars, ctor, hk, client >>

InitReview ==
    /\ userKeyFile = Absent
    /\ genCount = 0
    /\ prev = Brief(NoCall)
    /\ last = NoCall
    /\ procs = IdleProcs
    /\ hostKeyLines = << >>
    /\ runningTest = FALSE
    /\ ch = IdleCheckHost
    /\ authorizedKeys = << >>
    /\ authCall = NoAuthCall
    /\ nsStore = EmptyStores
    /\ nsLast = NoNsCall
    /\ CtorIdle
    /\ KeyIdle
    /\ ClientIdle
    /\ \E n \in 0 .. MaxReviews :
          \E row \in [1 .. n -> ReviewScopes \X Timestamps \X ReviewContents] :
              reviewDb = ReviewTable(n, row)
    /\ rvCall = NoReviewCall

NextReview == GetPendingReview \/ FixDuplicateReviews

SpecReview == InitReview /\ [][NextReview]_vars

----------------------------------------------------------------------------
(* SpecClient: one client object and the known-hosts lines of its storage *)

\* Known-hosts lines the storage may hold in one behaviour of SpecClient.
MaxClientLines == 2

\* The lines the storage holds at first: lines of the host, and a line
\* that does not parse.
ClientLines == {HostLine(H1, SSH_PORT, k) : k \in NsKeys} \cup {ShortLine}

\* SSHHostKeys.save(filename): pass.  The lines of the storage afterwards.
save(index, lines) == lines

ClientUnchanged ==
    UNCHANGED << userKeyFile, genCount, keyVars, concVars, runningTest, ch,
                 authVars, nsVars, ctor, hk, reviewDb, rvCall >>

\* What the client object is after a call: its host keys, and the call.
ClientCall(op, index, key, fault, exc) ==
    [op |-> op, index |-> index, hostname |-> H1, key |-> key,
     old_key |-> NoKey, fault |-> fault, exc |-> exc, calls |-> 1]

\* client = SSHClient(): the host keys are loaded from the storage; when
\* read_host_keys raises there is no client.
ClientConstruct ==
    /\ \E fault \in StorageFaults :
          LET h == load_host_keys(hostKeyLines, fault) IN
          client' = IF h.exc # NoExc
                    THEN [NoClient EXCEPT !.fault = fault, !.exc = h.exc,
                                          !.calls = 1]
                    ELSE ClientCall("SSHClient", h.index, NoKey, fault, NoExc)
    /\ UNCHANGED hostKeyLines
    /\ ClientUnchanged

\* client.load_host_keys(''): SSHHostKeys.load empties the entries, then
\* reads the storage.
ClientLoadHostKeys ==
    /\ client.op # "none"
    /\ \E fault \in StorageFaults :
          LET h == load_host_keys(hostKeyLines, fault) IN
          client' = ClientCall("load_host_keys", h.index, NoKey, fault, h.exc)
    /\ UNCHANGED hostKeyLines
    /\ ClientUnchanged

\* An add_host_key that files the key in the client's host keys as well.
ClientAddHostKey_UpdatesEntries ==
    /\ client.op # "none"
    /\ Len(hostKeyLines) < MaxClientLines
    /\ \E k \in NsKeys, fault \in StorageFaults :
          LET a == add_host_key(hostKeyLines, H1, k, fault) IN
          /\ hostKeyLines' = a.lines
          /\ client' = ClientCall("add_host_key",
                                  Append(client.index,
                                         HostLine(H1, SSH_PORT, k)),
                                  k, fault, a.exc)
    /\ ClientUnchanged

\* client.add_host_key(hostname, key)
ClientAddHostKey ==
    /\ client.op # "none"
    /\ Len(hostKeyLines) < MaxClientLines
    /\ \E k \in NsKeys, fault \in StorageFaults :
          LET a == add_host_key(hostKeyLines, H1, k, fault) IN
          /\ hostKeyLines' = a.lines
          /\ client' = ClientCall("add_host_key", client.index, k, fault,
                                  a.exc)
    /\ ClientUnchanged

\* client.replace_host_key(hostname, old_key, new_key)
ClientReplaceHostKey ==
    /\ client.op # "none"
    /\ \E old \in NsKeys, new \in NsKeys, fault \in StorageFaults :
          LET r == replace_host_key(hostKeyLines, H1, old, new, fault) IN
          /\ old # new
          /\ hostKeyLines' = r.lines
          /\ client' = [ClientCall("replace_host_key", client.index, new,
                                   fault, r.exc) EXCEPT !.old_key = old]
    /\ ClientUnchanged

\* client.save_host_keys(filename), which is SSHHostKeys.save.
ClientSaveHostKeys ==
    /\ client.op # "none"
    /\ hostKeyLines' = save(client.index, hostKeyLines)
    /\ client' = ClientCall("save", client.index, NoKey, NoExc, NoExc)
    /\ ClientUnchanged

InitClient ==
    /\ userKeyFile = Absent
    /\ genCount = 0
    /\ prev = Brief(NoCall)
    /\ last = NoCall
    /\ procs = IdleProcs
    /\ hostKeyLines \in SeqsUpTo(ClientLines, MaxClientLines)
    /\ runningTest = FALSE
    /\ ch = IdleCheckHost
    /\ authorizedKeys = << >>
    /\ authCall = NoAuthCall
    /\ nsStore = EmptyStores
    /\ nsLast = NoNsCall
    /\ CtorIdle
    /\ KeyIdle
    /\ ClientIdle
    /\ ReviewIdle

NextClient ==
    \/ ClientConstruct
    \/ ClientLoadHostKeys
    \/ ClientAddHostKey
    \/ ClientReplaceHostKey
    \/ ClientSaveHostKeys

SpecClient == InitClient /\ [][NextClient]_vars

----------------------------------------------------------------------------
(* Claims about the user-key operations (Spec) *)

\* The backend holds a user key: a readable one or a password-protected one.
HoldsKey(file) == file.fmt \in {"plain", "encrypted"}

\* C4 (as claimed): generate_user_key never overwrites a key that is already
\* in storage, also when reading that key fails: it makes no write_user_key
\* call and the stored key is the same before and after the call.
C4_GenerateNeverOverwrites ==
    (last.op = "generate" /\ HoldsKey(last.pre))
        => (last.writes = 0 /\ userKeyFile = last.pre)

\* C5 (as claimed): two consecutive generate_user_key calls that both return
\* give the same key, and together write exactly once when no key was stored
\* before the first and never when one was.
C5_GenerateIdempotent ==
    (prev.op = "generate" /\ last.op = "generate"
       /\ prev.exc = NoExc /\ last.exc = NoExc)
        => /\ last.ret = prev.ret
           /\ prev.writes + last.writes = (IF HoldsKey(prev.pre) THEN 0 ELSE 1)

\* Material that no supported algorithm parses, or a key object of an
\* unsupported type.
Unparseable(keyfile) ==
    IF keyfile.isPKey THEN keyfile.obj.type \notin {RSA, DSS}
    ELSE keyfile.rsa.st # "plain" /\ keyfile.dss.st # "plain"

\* C7: import_user_key of material no supported algorithm parses fails with
\* UnsupportedSSHKeyError, calls write_user_key not once, and leaves the
\* stored user key as it was.
C7_ImportUnparseableFails ==
    (last.op = "import" /\ Unparseable(last.in))
        => /\ last.exc = "UnsupportedSSHKeyError"
           /\ last.writes = 0
           /\ userKeyFile = last.pre

\* C7's case: unparseable material is imported while a key is stored.
C7_Witness ==
    /\ last.op = "import"
    /\ Unparseable(last.in)
    /\ last.pre.fmt = "plain"
    /\ last.exc = "UnsupportedSSHKeyError"

\* The keys the material handed to import_user_key holds.
KeysIn(keyfile) ==
    IF keyfile.isPKey THEN {keyfile.obj}
    ELSE (IF keyfile.rsa.st = "plain"
          THEN {BlockKey(RSA, keyfile.rsa.id)} ELSE {})
         \cup (IF keyfile.dss.st = "plain"
               THEN {BlockKey(DSS, keyfile.dss.id)} ELSE {})

\* C8: a successful import_user_key(k) returns a key of the material and
\* leaves exactly that key stored, whatever was stored before; a get_user_key
\* that follows it (and reads the storage without an I/O fault) returns the
\* key the import returned.
C8_ImportThenGet ==
    /\ (last.op = "import" /\ last.exc = NoExc)
          => /\ last.ret \in KeysIn(last.in)
             /\ userKeyFile = Stored(last.ret)
    /\ (prev.op = "import" /\ prev.exc = NoExc
          /\ last.op = "get" /\ last.rfault = NoExc)
          => /\ last.exc = NoExc
             /\ last.ret = prev.ret
             /\ last.ret # NoKey

\* C8's case: an import over a different stored key, then a get_user_key.
C8_Witness ==
    /\ prev.op = "import" /\ prev.exc = NoExc
    /\ prev.pre.fmt = "plain" /\ prev.pre.key # prev.ret
    /\ last.op = "get" /\ last.rfault = NoExc
    /\ last.ret = prev.ret

\* The order the claim fixes: RSA, then DSA.
ClaimedOrder == << RSA, DSS >>

\* The algorithm of ClaimedOrder[i] accepts the material.
Accepts(i, keyfile) ==
    IF keyfile.isPKey THEN keyfile.obj.type = ClaimedOrder[i]
    ELSE IF ClaimedOrder[i] = RSA THEN keyfile.rsa.st = "plain"
    ELSE keyfile.dss.st = "plain"

\* C9: a successful import_user_key stores and returns a key of the earliest
\* algorithm, in the order RSA then DSA, that accepts the material; the
\* algorithms tried are exactly those up to that one, and write_user_key is
\* called exactly once.
C9_FirstAlgorithmWins ==
    (last.op = "import" /\ last.exc = NoExc)
        => \E i \in 1 .. Len(ClaimedOrder) :
              /\ Accepts(i, last.in)
              /\ \A j \in 1 .. (i - 1) : ~Accepts(j, last.in)
              /\ last.ret.type = ClaimedOrder[i]
              /\ last.tried = SubSeq(ClaimedOrder, 1, i)
              /\ last.writes = 1
              /\ userKeyFile = Stored(last.ret)

\* C9's case: material both algorithms accept is imported, and RSA wins.
C9_Witness ==
    /\ last.op = "import" /\ last.exc = NoExc
    /\ ~last.in.isPKey
    /\ last.in.rsa.st = "plain" /\ last.in.dss.st = "plain"
    /\ last.ret = BlockKey(RSA, last.in.rsa.id)
    /\ last.tried = << RSA >>

\* A password-protected private key file: its one key block is encrypted.
PasswordProtected(keyfile) ==
    /\ ~keyfile.isPKey
    /\ {keyfile.rsa.st, keyfile.dss.st} = {"enc", "none"}

\* C10 (as claimed): importing a password-protected private key raises
\* PasswordRequiredException to the caller, not UnsupportedSSHKeyError, and
\* writes no key.
C10_PasswordRequiredSurfaces ==
    (last.op = "import" /\ PasswordProtected(last.in))
        => /\ last.exc = "PasswordRequiredException"
           /\ last.exc # "UnsupportedSSHKeyError"
           /\ last.writes = 0

----------------------------------------------------------------------------
(* Claims about concurrent callers (SpecConc) *)

\* C6 (as claimed): the user-key operations exclude one another, so of two
\* concurrent generate_user_key callers that both found no stored key, not
\* both write a key, and each returns the key that ends up stored.
C6_GenerateCallersExclusive ==
    \A p \in Procs, q \in Procs :
        (/\ p # q
         /\ procs[p].op = "generate" /\ procs[p].pc = "done"
         /\ procs[q].op = "generate" /\ procs[q].pc = "done"
         /\ procs[p].saw = NoKey /\ procs[q].saw = NoKey)
            => /\ ~(procs[p].wrote /\ procs[q].wrote)
               /\ userKeyFile = Stored(procs[p].ret)
               /\ userKeyFile = Stored(procs[q].ret)

----------------------------------------------------------------------------
(* Claims about check_host (SpecHost) *)

\* The keys the stored known-hosts lines record for the host being checked,
\* in the order of the lines.
StoredEntries ==
    LET ForHost(l) == l.kind = "ok"
                        /\ l.name = HostKeyName(ch.hostname, ch.port)
    IN SelectSeq(hostKeyLines, ForHost)

StoredKeys == {StoredEntries[i].key : i \in 1 .. Len(StoredEntries)}

\* The host has stored entries and presents a key that is none of them.
KeyChanged == StoredKeys # {} /\ ch.server \notin StoredKeys

\* C1: under either policy, once the server's key has been checked, a host
\* whose key differs from what is stored for it is never accepted: the call
\* has ended with BadHostKeyError carrying the host name, the presented key
\* and a key stored for the host; no warning took the place of the error, no
\* authentication was attempted and no session is open.
C1_ChangedKeyNeverAccepted ==
    (ch.verified /\ KeyChanged)
        => /\ ch.pc = "done"
           /\ ch.result.kind = "BadHostKeyError"
           /\ ch.result.hostname = ch.hostname
           /\ ch.result.key = ch.server
           /\ ch.result.expected \in StoredKeys
           /\ ~ch.warned
           /\ ch.auths = 0
           /\ ~ch.session

\* C1's case: the warning policy is installed and the host presents a key
\* that differs from its stored entry.
C1_Witness ==
    /\ ch.verified /\ KeyChanged
    /\ runningTest /\ ch.policy = WarnPolicy
    /\ ch.result.kind = "BadHostKeyError"

\* A stored entry of the host is equal to the presented key.
EntryEqual == ch.server \in StoredKeys

\* The host has one stored entry, and the presented key differs from it.
SoleEntryDiffers ==
    Len(StoredEntries) = 1 /\ StoredEntries[1].key # ch.server

\* C2: with the strict policy (RUNNING_TEST unset), once the server's key has
\* been checked: a stored entry equal to the presented key is accepted and
\* the attempt goes on to authentication; a key differing from the sole
\* stored entry ends the call with BadHostKeyError naming that entry; no
\* stored entry ends the call with UnknownHostKeyError, as the policy raised
\* it.
C2_StrictPolicyDecision ==
    (~runningTest /\ ch.verified)
        => /\ ch.policy = RaisePolicy
           /\ EntryEqual
                 => /\ ~ch.rejected /\ ~ch.warned
                    /\ ch.pc = "auth" \/ (ch.pc = "done" /\ ch.auths = 1)
                    /\ ch.result.kind
                          \notin {"BadHostKeyError", "UnknownHostKeyError"}
           /\ SoleEntryDiffers
                 => /\ ch.pc = "done"
                    /\ ch.result.kind = "BadHostKeyError"
                    /\ ch.result.expected = StoredEntries[1].key
           /\ StoredEntries = << >>
                 => /\ ch.pc = "done"
                    /\ ch.rejected
                    /\ ch.result.kind = "UnknownHostKeyError"
                    /\ ch.result.key = ch.server
                    /\ ch.result.hostname = ch.hostname

\* C3: when the policy rejects the server's key, the call has ended with the
\* policy's error, no authentication was attempted in the call and nothing
\* of a session is left open, neither an authenticated session nor the
\* transport connect had started; and authentication is only ever attempted
\* after the server's key has been checked and not rejected.
C3_RejectBeforeAuthentication ==
    /\ ch.rejected
          => /\ ch.pc = "done"
             /\ ch.result.kind = "UnknownHostKeyError"
             /\ ch.result.key = ch.server
             /\ ch.auths = 0
             /\ ~ch.session
             /\ ch.transport # "open"
    /\ (ch.auths > 0 \/ ch.session \/ ch.pc = "auth")
          => (ch.verified /\ ~ch.rejected /\ ch.connects = 1)

----------------------------------------------------------------------------
(* Claims about reading the user key *)

\* The last call was a get_user_key whose read of the storage failed: the
\* backend raised, or the stored file could not be loaded.
ReadFailed(c) ==
    /\ c.op = "get"
    /\ c.rfault # NoExc \/ c.pre.fmt \in {"encrypted", "garbage"}

\* C11: whatever makes storage.read_user_key fail, get_user_key returns None
\* and does not raise, and the storage is as it was.
C11_ReadFailureNeverFatal ==
    ReadFailed(last) =>
        /\ last.exc = NoExc
        /\ last.ret = NoKey
        /\ last.post = last.pre
        /\ userKeyFile = last.pre

\* C12 as stated: one check_host reads the user key from the storage at most
\* once.
C12_ReadOnce == ch.reads <= 1

\* C12: get_user_key keeps nothing: check_host reads the storage once for
\* connect's pkey argument and once more in the handler of an authentication
\* failure that allows "publickey", and never otherwise; the second read
\* returns what the storage gives then, which a failed read makes None
\* whatever the first returned.
C12_ReadsPerCheckHost ==
    /\ ch.reads \in 0 .. 2
    /\ ch.pc \in {"idle", "parse", "policy", "connect"} => ch.reads = 0
    /\ ch.connects = 1 => ch.reads >= 1
    /\ ch.reads = 2 <=>
          /\ ch.pc = "done"
          /\ IsAuthenticationException(ch.raised.cls)
          /\ InSeq("publickey", ch.raised.allowed)
    /\ ch.reads = 2 /\ ch.result.kind = "SSHAuthenticationError" =>
          ch.result.userKey =
              IF ch.hfault = NoExc /\ userKeyFile.fmt = "plain"
              THEN userKeyFile.key ELSE NoKey

\* The key was read twice, and the second read failed where the first had
\* returned the key.
C12_Witness ==
    /\ ch.reads = 2
    /\ ch.pkey # NoKey
    /\ ch.result.kind = "SSHAuthenticationError"
    /\ ch.result.userKey = NoKey

----------------------------------------------------------------------------
(* Claims about what check_host raises *)

\* The netloc has a port segment that does not parse as a positive integer:
\* more than one ':', or after the ':' something int() raises ValueError
\* for, or the digits of a value below 1.
BadPortSegment(netloc) ==
    LET colons == {i \in 1 .. Len(netloc) : netloc[i] = ":"}
        after(i) == SubSeq(netloc, i + 1, Len(netloc))
    IN /\ colons # {}
       /\ \/ Cardinality(colons) > 1
          \/ \E i \in colons :
                \/ ParseInt(after(i)).exc # NoExc
                \/ ParseInt(after(i)).value < 1

\* The constructor of the client raised: the call has ended before the
\* first set_missing_host_key_policy.
ConstructorRaised == ch.pc = "done" /\ ch.policy = "none"

\* C13: once the client is constructed, a netloc whose port segment is not a
\* positive integer ends check_host with SSHInvalidPortError, and connect
\* has not been called.
C13_BadPortRejected ==
    (/\ ch.pc \notin {"idle", "parse"}
     /\ ~ConstructorRaised
     /\ BadPortSegment(ch.netloc)) =>
        /\ ch.pc = "done"
        /\ ch.result.kind = "SSHInvalidPortError"
        /\ ch.connects = 0

\* connect raised an AuthenticationException: the server rejected the
\* authentication attempt.
AuthRejected ==
    /\ ch.pc = "done"
    /\ ch.auths = 1
    /\ IsAuthenticationException(ch.raised.cls)

\* C14 as stated: a rejected authentication ends check_host with
\* SSHAuthenticationError that carries the methods the server allows and,
\* when a key was passed to connect, that key.
C14_AttemptedKeyCarried ==
    AuthRejected =>
        /\ ch.result.kind = "SSHAuthenticationError"
        /\ ch.result.allowed = ch.raised.allowed
        /\ ch.pkey # NoKey => ch.result.userKey = ch.pkey

\* C14: a rejected authentication ends check_host with SSHAuthenticationError
\* that carries the exception's allowed types; its user key is None unless
\* "publickey" is among them, and is then what get_user_key returns when the
\* handler calls it again: the stored key, None when that read fails.  When
\* that second call lets an exception through, the exception leaves
\* check_host instead.
C14_AuthenticationErrorCarries ==
    AuthRejected =>
        IF ch.result.kind = "SSHAuthenticationError"
        THEN /\ ch.result.allowed = ch.raised.allowed
             /\ ch.result.userKey =
                   IF InSeq("publickey", ch.raised.allowed)
                        /\ ch.hfault = NoExc /\ userKeyFile.fmt = "plain"
                   THEN userKeyFile.key ELSE NoKey
        ELSE /\ InSeq("publickey", ch.raised.allowed)
             /\ ch.hfault = "Exception"
             /\ ch.result.kind = ch.hfault

\* A key was passed to connect and the server, which allows the password
\* only, rejected it: the error carries no key.
C14_Witness ==
    /\ AuthRejected
    /\ ch.pkey # NoKey
    /\ ch.raised.allowed = << "password" >>
    /\ ch.result.kind = "SSHAuthenticationError"
    /\ ch.result.allowed = << "password" >>
    /\ ch.result.userKey = NoKey

\* The connection attempt failed with something that is neither a host-key
\* mismatch nor an authentication rejection (nor the policy's refusal of an
\* unknown host).
OtherConnectFailure ==
    /\ ch.pc = "done"
    /\ ch.connects = 1
    /\ ch.raised.cls \in {"SSHException", "socket.error"}

\* C15 as stated: every such failure leaves check_host as SSHError with the
\* message of the underlying exception.
C15_OtherFailuresAreSSHError ==
    OtherConnectFailure =>
        /\ ch.result.kind = "SSHError"
        /\ ch.result.msg = ch.raised.msg

\* C15: an SSHException of the connection attempt that is neither a
\* BadHostKeyException nor an AuthenticationException leaves check_host as
\* SSHError with the exception's message unchanged, except for the message
\* 'No authentication methods available', which leaves as an
\* SSHAuthenticationError without allowed types or key; a failure that is no
\* SSHException (the socket's) leaves check_host as it is.
C15_TransportErrorMessage ==
    OtherConnectFailure =>
        IF ch.raised.cls # "SSHException"
        THEN /\ ch.result.kind = ch.raised.cls
             /\ ch.result.msg = ch.raised.msg
        ELSE IF ch.raised.msg = NoAuthMethods
        THEN /\ ch.result.kind = "SSHAuthenticationError"
             /\ ch.result.allowed = << >>
             /\ ch.result.userKey = NoKey
        ELSE /\ ch.result.kind = "SSHError"
             /\ ch.result.msg = ch.raised.msg

\* The transport's negotiation failed and check_host raised SSHError with
\* that message.
C15_Witness ==
    /\ OtherConnectFailure
    /\ ch.raised.cls = "SSHException"
    /\ ch.raised.msg = "negotiation"
    /\ ch.result.kind = "SSHError"
    /\ ch.result.msg = "negotiation"

\* The typed errors of check_host.
TypedErrors ==
    {"SSHInvalidPortError", "UnknownHostKeyError", "BadHostKeyError",
     "SSHAuthenticationError", "SSHError"}

\* C16: check_host returns or raises one of the typed errors.
C16_OnlyTypedErrors ==
    ch.pc = "done" => ch.result.kind \in TypedErrors \cup {"returned"}

----------------------------------------------------------------------------
(* Claims about the host keys the client loads *)

\* A line of "hostname keytype key" whose key is a key of that type.
WellFormed(line) == line.kind = "ok"

\* C17: when the storage has returned its lines, the host keys of the
\* constructed client are the entries of the well-formed lines, in the
\* order of the lines, and no others:
\* a line that parses to nothing or raises SSHException is passed over and
\* the lines around it are kept as they are.
C17_LoadKeepsWellFormedLines ==
    ch.pc # "idle" /\ ~ConstructorRaised =>
        /\ ch.index = SelectSeq(hostKeyLines, WellFormed)
        /\ \A i \in 1 .. Len(hostKeyLines) :
              WellFormed(hostKeyLines[i]) => InSeq(hostKeyLines[i], ch.index)
        /\ \A i \in 1 .. Len(ch.index) :
              WellFormed(ch.index[i]) /\ InSeq(ch.index[i], hostKeyLines)

\* The storage returned a line whose parse raises SSHException and then a
\* well-formed line; the client holds the entry of the second.
C17_Witness ==
    /\ ch.pc # "idle"
    /\ Len(hostKeyLines) >= 2
    /\ hostKeyLines[1].kind = "badkey"
    /\ hostKeyLines[2].kind = "ok"
    /\ ch.index = << hostKeyLines[2] >>

----------------------------------------------------------------------------
(* Claims about is_key_authorized (SpecAuth) *)

\* The words of a line: the maximal runs of characters that are no
\* whitespace, from left to right.
WordStarts(l) ==
    {i \in 1 .. Len(l) : ~IsSpace(l[i]) /\ (i = 1 \/ IsSpace(l[i - 1]))}

WordAt(l, i) ==
    LET stop == {j \in i .. Len(l) : IsSpace(l[j])} IN
    SubSeq(l, i, IF stop = {} THEN Len(l)
                 ELSE (CHOOSE j \in stop : \A k \in stop : j <= k) - 1)

\* The line has two words or more and the second one is the blob.
SecondWordIs(l, blob) ==
    \E i \in WordStarts(l) :
        /\ Cardinality({j \in WordStarts(l) : j < i}) = 1
        /\ WordAt(l, i) = blob

\* C18: is_key_authorized returns true exactly when the second word of some
\* authorized-keys line is the key's base64 blob; a line of fewer than two
\* words matches nothing and raises nothing.
C18_AuthorizedIffSecondToken ==
    authCall.op = "is_key_authorized" /\ authCall.fault = NoExc =>
        /\ authCall.exc = NoExc
        /\ authCall.ret <=>
              \E i \in 1 .. Len(authorizedKeys) :
                  SecondWordIs(authorizedKeys[i], get_base64(authCall.key))

\* A line whose only word is the key's blob comes before a line whose second
\* word is: the key is authorized by the second line.
C18_Witness ==
    /\ authCall.op = "is_key_authorized"
    /\ authCall.fault = NoExc
    /\ Len(authorizedKeys) = 2
    /\ authorizedKeys[1] = get_base64(authCall.key) \o << "\n" >>
    /\ authorizedKeys[2] = AuthLine(authCall.key)
    /\ authCall.ret

----------------------------------------------------------------------------
(* Claims about namespaces and storage failures (SpecNs) *)

\* What a client of namespace b is told when the backend holds stores: its
\* user key, whether each key is authorized, and the host keys it loads.
Observed(stores, b) ==
    LET st == stores[SSHClient(b).storage] IN
    [key   |-> get_user_key(st.userKey, NoExc).key,
     auth  |-> [k \in NsKeys |-> is_key_authorized(st.authKeys, k, NoExc).ret],
     index |-> load_host_keys(st.hostKeys, NoExc).index]

\* C19: a call on a client goes to the backend of the client's namespace and
\* changes nothing of what the clients of the other namespaces are told.
C19_NoCrossNamespaceLeakage ==
    [][/\ nsLast'.backend = nsLast'.ns
       /\ \/ nsStore' = nsStore
          \/ \A b \in Namespaces :
                b # nsLast'.ns =>
                    /\ nsStore'[b] = nsStore[b]
                    /\ Observed(nsStore', b) = Observed(nsStore, b)]_vars

\* The two namespaces hold user keys and host keys of their own: the client
\* of the site has imported its key and filed a host key after the client of
\* the namespace None did.
C19_Witness ==
    /\ nsLast.ns = "site-a"
    /\ nsLast.op = "add_host_key"
    /\ nsLast.exc = NoExc
    /\ nsStore["site-a"].userKey = Stored(BlockKey(DSS, 1))
    /\ nsStore["site-a"].hostKeys = << HostLine(H1, SSH_PORT, BlockKey(DSS, 1)) >>
    /\ nsStore[NoNamespace].userKey = Stored(BlockKey(RSA, 1))
    /\ nsStore[NoNamespace].hostKeys = << HostLine(H1, SSH_PORT, BlockKey(RSA, 1)) >>

\* The storage operation of the last call failed.
StorageFailed(ops) == nsLast.op \in ops /\ nsLast.fault # NoExc

\* C20 as stated: a failure of write_user_key, delete_user_key,
\* read_authorized_keys, read_host_keys, add_host_key or replace_host_key
\* reaches the caller as an error, after one call of the operation.
C20_EveryStorageFailureRaises ==
    StorageFailed({"generate", "import", "delete", "is_key_authorized",
                   "construct", "add_host_key", "replace_host_key"}) =>
        /\ nsLast.exc # NoExc
        /\ nsLast.calls = 1

\* C20: a failure of write_user_key, delete_user_key, read_host_keys,
\* add_host_key or replace_host_key reaches the caller as the exception the
\* backend raised, after one call of the operation; an IOError of
\* read_authorized_keys does not: is_key_authorized returns False, after one
\* call as well, and only an exception of another class reaches its caller.
C20_StorageFailureReachesCaller ==
    /\ StorageFailed({"generate", "import", "delete", "construct",
                      "add_host_key", "replace_host_key"}) =>
          /\ nsLast.exc = nsLast.fault
          /\ nsLast.calls = 1
    /\ StorageFailed({"is_key_authorized"}) =>
          /\ nsLast.calls = 1
          /\ IF nsLast.fault = "IOError"
             THEN nsLast.exc = NoExc /\ ~nsLast.ok
             ELSE nsLast.exc = nsLast.fault

\* delete_user_key of the backend raised IOError and the caller of the
\* client's delete_user_key got it; the key is still stored.
C20_Witness ==
    /\ nsLast.op = "delete"
    /\ nsLast.fault = "IOError"
    /\ nsLast.exc = "IOError"
    /\ nsLast.calls = 1
    /\ nsStore[nsLast.ns].userKey # Absent

----------------------------------------------------------------------------
(* Claims about the constructor of SSHClient (SpecInit) *)

\* The candidates: the explicit backend alone when one is given, otherwise
\* the site configuration's, the setting's and the default, those of them
\* that could be looked up.
Candidates ==
    IF ctor.storage_backend \notin {NonePath, ""}
    THEN << ctor.storage_backend >>
    ELSE (IF ctor.siteconfig.exc = NoExc
          THEN << ctor.siteconfig.value >> ELSE << >>)
         \o (IF ctor.setting.exc = NoExc
             THEN << ctor.setting.value >> ELSE << >>)
         \o << DEFAULT_STORAGE >>

\* The i-th candidate is not empty, imports and instantiates.
Succeeds(i) ==
    /\ Candidates[i] \notin {NonePath, ""}
    /\ ctor.outcome[Candidates[i]] = "ok"

\* C21: the constructor raises when no backend loads and when the host keys
\* cannot be read, and then there is no client; when it returns, the
\* client's storage is a backend that imported and was instantiated with the
\* client's namespace, and the host keys are those of the lines of that
\* storage, read once.
C21_NeverPartiallyInitialized ==
    ctor.op = "SSHClient" =>
        /\ (\A i \in 1 .. Len(Candidates) : ~Succeeds(i)) => ctor.exc # NoExc
        /\ ctor.fault # NoExc => ctor.exc # NoExc
        /\ ctor.exc # NoExc =>
              ctor.storage = NoStorage /\ ctor.index = << >>
        /\ ctor.exc = NoExc =>
              /\ ctor.storage # NoStorage
              /\ ctor.outcome[ctor.storage.path] = "ok"
              /\ ctor.storage.namespace = ctor.namespace
              /\ ctor.reads = 1
              /\ ctor.index = SelectSeq(BackendLines(ctor.storage), WellFormed)

\* The default backend loaded for the site's namespace after the configured
\* one failed, and read_host_keys raised: the constructor raised.
C21_Witness ==
    /\ ctor.op = "SSHClient"
    /\ ctor.namespace = "site-a"
    /\ ctor.siteconfig.value = SiteStorage
    /\ ctor.outcome[SiteStorage] = "Exception"
    /\ ctor.outcome[DEFAULT_STORAGE] = "ok"
    /\ ctor.fault = "IOError"
    /\ ctor.exc = "IOError"
    /\ ctor.storage = NoStorage

\* C26: an explicit backend is the only candidate; otherwise the site
\* configuration's path, the setting's and the default are tried in this
\* order, empty ones passed over; the first one that imports and
\* instantiates is the storage of the client the constructor returns, and no
\* later one is imported or instantiated; ImproperlyConfigured is raised
\* only when none does.
C26_OrderedResolution ==
    ctor.op = "SSHClient" =>
        LET first == CHOOSE i \in 1 .. Len(Candidates) :
                        Succeeds(i) /\ \A j \in 1 .. i - 1 : ~Succeeds(j)
            tried == {ctor.imported[k] : k \in 1 .. Len(ctor.imported)}
            made == {ctor.instantiated[k] : k \in 1 .. Len(ctor.instantiated)}
            NonEmpty(n) == {i \in 1 .. n : Candidates[i] \notin {NonePath, ""}}
        IN /\ ctor.paths = Candidates
           /\ ctor.imported \in Seq(1 .. Len(Candidates))
           /\ \A k \in 1 .. Len(ctor.imported) - 1 :
                 ctor.imported[k] < ctor.imported[k + 1]
           /\ made \subseteq tried /\ tried \subseteq NonEmpty(Len(Candidates))
           /\ IF \E i \in 1 .. Len(Candidates) : Succeeds(i)
              THEN /\ ctor.exc # "ImproperlyConfigured"
                   /\ tried \subseteq 1 .. first
                   /\ ctor.exc = NoExc =>
                         /\ ctor.storage.path = Candidates[first]
                         /\ tried = NonEmpty(first)
                         /\ made = {i \in tried :
                                       ctor.outcome[Candidates[i]]
                                           \in {"ok", "Exception"}}
              ELSE /\ ctor.exc \in {"ImproperlyConfigured", "ValueError"}
                   /\ ctor.exc = "ImproperlyConfigured" =>
                         tried = NonEmpty(Len(Candidates))

\* No explicit backend; the site configuration's path does not import, the
\* setting is empty, and the default becomes the storage.
C26_Witness ==
    /\ ctor.op = "SSHClient"
    /\ ctor.storage_backend = NonePath
    /\ ctor.siteconfig = [exc |-> NoExc, value |-> CustomStorage]
    /\ ctor.setting = [exc |-> NoExc, value |-> ""]
    /\ ctor.outcome[CustomStorage] = "ImportError"
    /\ ctor.exc = NoExc
    /\ ctor.storage.path = DEFAULT_STORAGE
    /\ ctor.imported = << 1, 3 >>
    /\ ctor.instantiated = << 3 >>

----------------------------------------------------------------------------
(* Claims about the policy and the connection attempt of check_host         *)
(* (SpecHost)                                                               *)

\* What a connection attempt made now finds for the host and the key of the
\* call: the host keys a new client loads from the storage are looked up.
NextAttemptFinds ==
    CheckServerKey(load(hostKeyLines), HostKeyName(ch.hostname, ch.port),
                   ch.server).outcome

\* C22 (as claimed): under WarningPolicy (RUNNING_TEST set) a server key that
\* has been checked, unknown or unlike the stored one, is accepted (the call
\* does not end with a host-key error), and when the call has ended the key
\* is recorded, so that the next attempt to the same host finds a match.
C22_WarnPolicyRecordsKey ==
    (runningTest /\ ch.verified /\ ch.pc = "done")
        => /\ ch.result.kind \notin {"BadHostKeyError", "UnknownHostKeyError"}
           /\ NextAttemptFinds = "match"

\* C25: a check_host call enters connect at most once; while connect runs
\* it has been entered exactly once, and an exception that leaves connect
\* ends the call, with the result the except clauses give, without another
\* connect.
C25_SingleConnectionAttempt ==
    /\ ch.connects <= 1
    /\ ch.pc \in {"handshake", "verify", "auth"} => ch.connects = 1
    /\ ch.raised # NoRaise
          => /\ ch.pc = "done"
             /\ ch.result # Pending
             /\ ch.result # Returned

\* C25's case: the handshake failed after one connect, and the call ended
\* with SSHError.
C25_Witness ==
    /\ ch.pc = "done"
    /\ ch.raised \in HandshakeFailures
    /\ ch.raised.cls = "SSHException"
    /\ ch.connects = 1
    /\ ch.result.kind = "SSHError"

\* C27: from the moment connect is about to be called to the end of the
\* call, the client's policy is RaiseUnknownHostKeyPolicy when RUNNING_TEST
\* is unset and WarningPolicy when it is set, and no step of the call
\* changes it.
C27_PolicyFixedBeforeConnect ==
    [][ /\ (ch.pc \in {"connect", "handshake", "verify", "auth"}
              \/ (ch.pc = "done" /\ ch.connects = 1))
           => /\ ch.policy = (IF runningTest THEN WarnPolicy ELSE RaisePolicy)
              /\ ch.policy \in {RaisePolicy, WarnPolicy}
        /\ (ch.pc \in {"connect", "handshake", "verify", "auth"}
              /\ ch'.pc # "idle")
           => ch'.policy = ch.policy ]_vars

\* C27's case: RUNNING_TEST is set, and the warning policy was in force when
\* the server's unknown key was checked, up to the end of the call.
C27_Witness ==
    /\ runningTest
    /\ ch.pc = "done"
    /\ ch.connects = 1
    /\ ch.warned
    /\ ch.policy = WarnPolicy

\* C30: an SSHException, neither BadHostKeyException nor an
\* AuthenticationException, whose message is 'No authentication methods
\* available' ends the call with SSHAuthenticationError without allowed
\* types and without user key; with any other message it ends the call with
\* SSHError of that message; a BadHostKeyException or an
\* AuthenticationException never ends the call with SSHError.
C30_NoAuthMethodsIsAuthenticationError ==
    ch.pc = "done" =>
        /\ (ch.raised.cls = "SSHException" /\ ch.raised.msg = NoAuthMethods)
              => ch.result = Result("SSHAuthenticationError", << >>, NoKey,
                                    NoKey, << >>, NoKey, "")
        /\ (ch.raised.cls = "SSHException" /\ ch.raised.msg # NoAuthMethods)
              => ch.result = Result("SSHError", << >>, NoKey, NoKey, << >>,
                                    NoKey, ch.raised.msg)
        /\ ch.raised.cls = "BadHostKeyException"
              => ch.result.kind = "BadHostKeyError"
        /\ IsAuthenticationException(ch.raised.cls)
              => ch.result.kind # "SSHError"

\* C30's case: authentication found no method to try, and the call ended
\* with SSHAuthenticationError.
C30_Witness ==
    /\ ch.pc = "done"
    /\ ch.raised.cls = "SSHException"
    /\ ch.raised.msg = NoAuthMethods
    /\ ch.auths = 1
    /\ ch.result.kind = "SSHAuthenticationError"

----------------------------------------------------------------------------
(* Claims about deleting the user key (Spec) *)

\* C23: when delete_user_key returns, no user key is stored; from then on,
\* as long as only get_user_key and delete_user_key are called, none is
\* stored and a get_user_key that returns returns None; a generate_user_key
\* that follows the delete and returns has written once, a key that is not
\* the deleted one, and that key is stored; with no key stored and a backend
\* that works, delete_user_key does not raise and leaves the storage as it
\* was.
C23_DeleteLeavesNoKey ==
    /\ (last.op = "delete" /\ last.exc = NoExc) => userKeyFile = Absent
    /\ (last.op \in {"get", "delete"} /\ last.pre = Absent)
          => userKeyFile = Absent
    /\ (last.op = "get" /\ last.pre = Absent /\ last.exc = NoExc)
          => last.ret = NoKey
    /\ (prev.op = "delete" /\ prev.exc = NoExc /\ last.op = "get")
          => last.pre = Absent
    /\ (prev.op = "delete" /\ prev.exc = NoExc
          /\ last.op = "generate" /\ last.exc = NoExc)
          => /\ last.writes = 1
             /\ last.ret # NoKey
             /\ prev.pre.fmt = "plain" => last.ret # prev.pre.key
             /\ userKeyFile = Stored(last.ret)
    /\ (last.op = "delete" /\ last.pre = Absent /\ last.wfault = NoExc)
          => /\ last.exc = NoExc
             /\ userKeyFile = last.pre

\* C23's case: a stored key was deleted, and the generate_user_key that
\* followed wrote a new one.
C23_Witness ==
    /\ prev.op = "delete" /\ prev.exc = NoExc
    /\ prev.pre.fmt = "plain"
    /\ last.op = "generate" /\ last.exc = NoExc
    /\ last.writes = 1
    /\ last.ret # prev.pre.key
    /\ userKeyFile = Stored(last.ret)

----------------------------------------------------------------------------
(* Claims about humanize_key (SpecKey) *)

\* The value of a lowercase hexadecimal digit; 16 for any other character.
HexValue(c) ==
    IF \E d \in 1 .. 16 : HexDigits[d] = c
    THEN (CHOOSE d \in 1 .. 16 : HexDigits[d] = c) - 1
    ELSE 16

\* The string is the rendering of the digest: one octet of two lowercase
\* hexadecimal digits for every byte, in order, with ':' between the octets
\* and nothing else.
RendersDigest(str, digest) ==
    LET n == Len(digest) IN
    /\ Len(str) = 3 * n - 1
    /\ \A j \in 1 .. n :
          /\ HexValue(str[3 * j - 2]) < 16
          /\ HexValue(str[3 * j - 1]) < 16
          /\ 16 * HexValue(str[3 * j - 2]) + HexValue(str[3 * j - 1])
                = digest[j]
          /\ j < n => str[3 * j] = ":"

\* C24: for a digest of n bytes humanize_key returns n octets of two
\* lowercase hexadecimal digits joined by ':', 3n-1 characters in all, each
\* octet the value of its byte; equal digests give equal strings and
\* different digests different strings.
C24_HumanizeKeyInjective ==
    hk.op = "humanize_key" =>
        /\ RendersDigest(hk.ret[1], hk.fingerprints[1])
        /\ RendersDigest(hk.ret[2], hk.fingerprints[2])
        /\ (hk.fingerprints[1] = hk.fingerprints[2]) <=> (hk.ret[1] = hk.ret[2])

\* C24's case: two digests of different lengths that begin with the same
\* byte, a byte below 16 among them, and their different renderings.
C24_Witness ==
    /\ hk.op = "humanize_key"
    /\ hk.fingerprints[1] = << 10 >>
    /\ hk.fingerprints[2] = << 10, 255 >>
    /\ hk.ret[1] = << "0", "a" >>
    /\ hk.ret[2] = << "0", "a", ":", "f", "f" >>

----------------------------------------------------------------------------
(* Claims about ReviewManager.get_pending_review (SpecReview) *)

\* The pending reviews of the call's user on the call's review request
\* before the call, and after it.
PendingBefore ==
    PendingRows(rvCall.before, rvCall.user, rvCall.review_request)
PendingAfter == PendingRows(reviewDb, rvCall.user, rvCall.review_request)

\* C28: after get_pending_review has returned for an authenticated user, at
\* most one pending review of the user on the review request exists; when
\* there were any, the one returned is one of them, none of them had an
\* earlier timestamp, it is the one that exists afterwards, every comment
\* of each of them is attached to it, and every text field that was set in
\* one of them is set in it.
C28_PendingReviewRepaired ==
    (rvCall.op = "get_pending_review" /\ is_authenticated(rvCall.user))
        => /\ Cardinality(PendingAfter) <= 1
           /\ PendingBefore = {} <=> rvCall.ret = 0
           /\ PendingBefore # {}
                 => /\ rvCall.ret \in PendingBefore
                    /\ PendingAfter = {rvCall.ret}
                    /\ \A id \in PendingBefore :
                          /\ rvCall.before[rvCall.ret].timestamp
                                <= rvCall.before[id].timestamp
                          /\ \A f \in FieldSet(CommentFields) :
                                rvCall.before[id].comments[f]
                                    \subseteq reviewDb[rvCall.ret].comments[f]
                          /\ \A a \in FieldSet(BodyFields) :
                                IsSet(rvCall.before[id].body[a])
                                    => IsSet(reviewDb[rvCall.ret].body[a])

\* C28's case: two pending reviews of the user, the later one with a text
\* field and a comment the earlier one lacked; the earlier one is returned
\* and holds them, the later one is gone.
C28_Witness ==
    /\ rvCall.op = "get_pending_review"
    /\ rvCall.user = "alice"
    /\ PendingBefore = {1, 2}
    /\ rvCall.before[2].timestamp < rvCall.before[1].timestamp
    /\ rvCall.before[2].body["body_top"] = Empty
    /\ rvCall.before[1].body["body_top"] = ValueOf(1)
    /\ rvCall.before[1].comments["comments"] = {1}
    /\ rvCall.ret = 2
    /\ ~reviewDb[1].exists
    /\ reviewDb[2].body["body_top"] = ValueOf(1)
    /\ 1 \in reviewDb[2].comments["comments"]

----------------------------------------------------------------------------
(* Claims about the host keys of a client object (SpecClient) *)

\* What a connection finds for the host and the key in these host keys.
Finds(index, key) ==
    CheckServerKey(index, HostKeyName(H1, SSH_PORT), key).outcome

\* C29: a step that is add_host_key or replace_host_key leaves the client's
\* host keys as they were, so a key the client did not find trusted before
\* the call it does not find trusted after it; the storage has the key only
\* when the backend did not raise; SSHHostKeys.save leaves the storage and
\* the host keys as they were; a client constructed, or host keys loaded
\* again, afterwards hold what the storage holds then.
C29_AddReplaceOnlyCallStorage ==
    [][ /\ client'.op \in {"add_host_key", "replace_host_key"}
           => /\ client'.index = client.index
              /\ Finds(client'.index, client'.key)
                    = Finds(client.index, client'.key)
              /\ client'.exc # NoExc => hostKeyLines' = hostKeyLines
              /\ hostKeyLines' # hostKeyLines
                    => Finds(load(hostKeyLines'), client'.key) = "match"
        /\ client'.op = "save"
           => /\ hostKeyLines' = hostKeyLines
              /\ client'.index = client.index
        /\ (client'.op \in {"SSHClient", "load_host_keys"}
              /\ client'.exc = NoExc)
           => /\ hostKeyLines' = hostKeyLines
              /\ client'.index = load(hostKeyLines')
              /\ client'.index = SelectSeq(hostKeyLines', WellFormed) ]_vars

\* C29's case: the client added a key for the host and the storage has it,
\* yet the client's own host keys do not know the host.
C29_Witness ==
    /\ client.op = "add_host_key"
    /\ client.exc = NoExc
    /\ Finds(client.index, client.key) = "unknown"
    /\ Finds(load(hostKeyLines), client.key) = "match"

====
